---- MODULE Spec2Model ----
(***************************************************************************)
(* Model of the load balancer / rate limiter: the backend registry and its *)
(* health-update bus, the health checker's worker pool, the per-route      *)
(* balancer with its proxy entry point, the round-robin strategy and the    *)
(* token-bucket limiter.                                                    *)
(***************************************************************************)
EXTENDS Integers, Sequences, FiniteSets, TLC

(***************************************************************************)
(* Bounds of the model.                                                     *)
(***************************************************************************)
\* number of probes the workers start in one behaviour
MaxProbes == 2
\* number of inbound requests served in one behaviour
MaxRequests == 1
\* longest candidate list handed to the round-robin strategy
MaxLen == 4
\* number of GetNextBackend calls in one behaviour
MaxPicks == 5
\* number of goroutines calling GetNextBackend at the same time
NumCallers == 2
\* largest bucket capacity (the limiter's limit, a client's Capacity)
MaxCap == 2
\* number of Allow calls in one behaviour
MaxAllows == 3
\* number of refill ticks in one behaviour
MaxTicks == 1
\* number of AddClient / DeleteClient calls in one behaviour
MaxManage == 2
\* number of goroutines calling Allow at the same time
NumClients == 2
\* number of inbound requests in flight at the same time
NumRequests == 2
\* longest healthy list the proxy handler is given
MaxHealthy == 2
MaxApi == 3
\* calls of addToHealthyBacks / removeFromHealthyBackends on one Loadbalancer
MaxUpdates == 3

(***************************************************************************)
(* Program constants.                                                       *)
(***************************************************************************)
\* healthchecker.Start: numWorkers := 3
numWorkers == 3
\* registry.Subscribe: make(chan models.BackendStatus, 10)
SubscriberCap == 10
\* NewHealthChecker: make(chan *models.Backend, 1000)
ServerChanCap == 1000
\* config.yaml: route /api has two backends, route /static has one
RouteSizes == <<2, 1>>

Routes == 1..Len(RouteSizes)

RECURSIVE SumTo(_, _)
SumTo(s, n) == IF n = 0 THEN 0 ELSE s[n] + SumTo(s, n - 1)

\* the configured backends, numbered in the order CreateLoadBalancers visits them
NumBackends == SumTo(RouteSizes, Len(RouteSizes))
Slots == 1..NumBackends

\* the route whose configuration holds slot k
RouteOf(k) == CHOOSE r \in Routes : SumTo(RouteSizes, r - 1) < k /\ k <= SumTo(RouteSizes, r)
LastSlotOf(r) == SumTo(RouteSizes, r)
SlotsOf(r) == {k \in Slots : RouteOf(k) = r}

\* NewBackend: idCounter++ under idMutex, so the k-th backend made gets Id k
NewBackendId(k) == k

\* the Backend.Id values a direct caller of CreateLoadBalancers hands over,
\* slot by slot: all left at zero (the integration test), all made by
\* NewBackend, one identity used twice within a route, one identity used in
\* two routes
DirectIdChoices ==
  { [k \in Slots |-> 0],
    [k \in Slots |-> NewBackendId(k)],
    [k \in Slots |-> IF RouteOf(k) = 1 THEN 1 ELSE 2],
    [k \in Slots |-> IF k = LastSlotOf(1) THEN 2 ELSE 1] }
Ids == 0..NumBackends

Workers == 1..numWorkers
NoBackend == [Id |-> -1, URL |-> 0, Health |-> 0]
NoStatus == [Id |-> -1, IsHealthy |-> FALSE]

\* models.Backend: URL and Health of the k-th configured backend (distinct
\* servers, as in config.yaml), Id as the caller set it
Backend(id, k) == [Id |-> id, URL |-> 8080 + k, Health |-> k]

\* NewApp copies URL and Health of every configured backend into a
\* models.Backend and leaves Id at its zero value
NewAppRoutes == [k \in Slots |-> Backend(0, k)]

\* a direct caller of CreateLoadBalancers (the integration test) passes
\* RouteConfig values whose Backend.Id is whatever the caller wrote
DirectRoutes == {[k \in Slots |-> Backend(ids[k], k)] : ids \in DirectIdChoices}

VARIABLES
  mode,             \* "NewApp" or "direct": who calls CreateLoadBalancers
  routes,           \* slot -> models.Backend: the []RouteConfig handed over
  appPc,            \* position of the start-up thread
  regNext,          \* next slot setupHealthAndRegister handles
  crashed,          \* the process has exited (log.Fatal / runtime fatal error)
  \* BackendRegistry
  backendId,        \* Id -> models.Backend (NoBackend: absent)
  backends,         \* Id -> models.BackendStatus (NoStatus: absent)
  subscribers,      \* Id -> sequence of sinks (a sink is named by its slot)
  sinkBuf,          \* sink -> buffered statuses
  regMu,            \* holder of r.mu's write lock (0: free)
  \* HealthChecker
  serverChan,       \* queue of backend references (slots)
  healthySet,       \* set of Ids
  timers,           \* slot -> delays of the time.AfterFunc timers armed for it
  wPc, wBackend, wHealthy, wSub,   \* per worker
  probes,           \* probes started so far
  \* Loadbalancer (the object the consumers write) and LoadBalancerHandler.lb
  healthyBackends,  \* route -> sequence of models.Backend
  handlerBackends,  \* route -> the healthyBackends field of the handler's copy
  handlerMade,      \* routes whose NewLBHandler has run
  lbMu,             \* route -> sink whose consumer holds lb.mu (0: free)
  cPc, cUpdate,     \* per consumer (one per sink)
  current,          \* route -> RoundRobinAlgorithm.current, as <<hi, lo>>
  requests,         \* requests served so far
  \* history
  observed,         \* Id -> probe results in completion order
  published,        \* Id -> statuses UpdateHealth recorded, in order
  received,         \* sink -> statuses its consumer took, in order
  served,           \* route -> log of requests
  lastApplied,      \* route -> Id -> the last update a consumer finished applying
  hbVersion         \* route -> number of writes to healthyBackends

VARIABLES
  \* RoundRobinAlgorithm used on its own with a fixed candidate list
  rrLen,            \* length of the candidate list
  rrCurrent,        \* RoundRobinAlgorithm.current, as <<hi, lo>>
  rrPc, rrIndex,    \* per caller: position, and the index it obtained
  rrPicks,          \* positions chosen (0-based), in the order of the counter
  rrValues,         \* counter values obtained, in that order
  rrErrors          \* calls that returned "no backends available"

rrVars == <<rrLen, rrCurrent, rrPc, rrIndex, rrPicks, rrValues, rrErrors>>

VARIABLES
  \* TokenBucketLimiter
  tokenBucket,      \* key -> channel (0: no entry, the nil channel)
  chans,            \* channel -> [cap, len]: the channels made so far
  clients,          \* key -> ClientConfig (NoClient: absent)
  defaultCap,       \* the limit the limiter was built with
  tbWriter,         \* refill loop holding tb.mu's write lock (0: free)
  tbReaders,        \* Allow callers holding tb.mu's read lock
  loopPc,           \* refill loop -> "off", "wait", "pass" or "done"
  ctxDone,          \* the context given to the limiter is cancelled
  allowPc, allowChan,  \* per Allow caller
  fatal,            \* the runtime ended the process (concurrent map access)
  \* history
  stats,            \* channel -> [calls, admitted, ticks]: the Allow calls decided on
                    \* it, those admitted, the refill passes over it since the first
  nAllows, nTicks, nManage

limiterVars == <<tokenBucket, chans, clients, defaultCap, tbWriter, tbReaders, loopPc,
                 ctxDone, allowPc, allowChan, fatal, stats, nAllows, nTicks,
                 nManage>>

VARIABLES
  \* one inbound request per caller, from rateLimitMiddleware to the response
  rqList,           \* the list h.lb.getHealthyBackends() returns (positions)
  rqCounter,        \* the route's RoundRobinAlgorithm.current, as <<hi, lo>>
  rqPc,             \* request -> "new", "serve", "clone", "do", "wait", "done"
  rqKey,            \* request -> the key getClientIP derived
  rqAllowed,        \* request -> Allow's result: "none" (not called), "admit", "reject"
  rqInvoked,        \* request -> times next.ServeHTTP was called
  rqBackend,        \* request -> position selected (0: none)
  rqI,              \* request -> executeWithRetries' loop index i
  rqAttempts,       \* request -> outcomes of its client.Do calls, in order
  rqDone,           \* request -> r.Context() is cancelled
  rqCancelPc,       \* request -> where the request was when it was cancelled
  rqCancelAt,       \* request -> attempts made when it was cancelled
  rqStatus,         \* request -> status written to the client (0: none yet)
  rqRelayed         \* request -> the response is a backend's, via copyResponse

\* the /clients management surface
VARIABLES
  apiStatus,        \* status of the last /clients response (0: none was written)
  apiBody,          \* the configs in the last GET /clients response
  nApi              \* /clients requests handled

apiVars == <<apiStatus, apiBody, nApi>>

VARIABLES
  \* one Loadbalancer's healthyBackends as the slice it is, and one request
  lbArrays,         \* the backing arrays allocated so far (0: an unused element)
  lbSlice,          \* lb.healthyBackends: [arr, len] (arr 0: the nil slice)
  lbCurrent,        \* lb.Algorithm's counter, as <<hi, lo>>
  reqPc,            \* the request: "new", "got" (holds the list), "done"
  reqSlice,         \* the slice getHealthyBackends returned to the request
  reqSeen,          \* history: the elements of that slice when it was returned
  reqPick,          \* the backend GetNextBackend returned (0: none)
  nUpdates          \* updates applied so far

sliceVars == <<lbArrays, lbSlice, lbCurrent, reqPc, reqSlice, reqSeen, reqPick, nUpdates>>

inboundVars == <<rqList, rqCounter, rqPc, rqKey, rqAllowed, rqInvoked, rqBackend, rqI,
                  rqAttempts, rqDone, rqCancelPc, rqCancelAt, rqStatus, rqRelayed>>

healthVars == <<mode, routes, appPc, regNext, crashed, backendId, backends, subscribers,
                sinkBuf, regMu, serverChan, healthySet, timers, wPc, wBackend, wHealthy,
                wSub, probes, healthyBackends, handlerBackends, handlerMade, lbMu,
                cPc, cUpdate, current, requests, observed, published, received, served,
                lastApplied, hbVersion>>

(***************************************************************************)
(* Helpers on sequences.                                                    *)
(***************************************************************************)
Min(a, b) == IF a < b THEN a ELSE b

IsPrefix(s, t) == Len(s) <= Len(t) /\ \A i \in 1..Len(s) : s[i] = t[i]

\* s without its i-th element
RemoveAt(s, i) == [j \in 1..(Len(s) - 1) |-> IF j < i THEN s[j] ELSE s[j + 1]]

SeqToSet(s) == {s[i] : i \in DOMAIN s}

(***************************************************************************)
(* BackendRegistry.                                                         *)
(***************************************************************************)
\* AddBackendToRegistry: r.backendId[backend.Id] = backend
AddBackendToRegistry(reg, backend) == [reg EXCEPT ![backend.Id] = backend]

\* Subscribe: r.subscribers[backendId] = append(r.subscribers[backendId], ch)
Subscribe(subs, id, ch) == [subs EXCEPT ![id] = Append(@, ch)]

\* GetBackendById: backend, exists := r.backendId[backendId]
GetBackendById(reg, id) == [backend |-> reg[id], exists |-> reg[id] # NoBackend]

\* UpdateHealth: status == (models.BackendStatus{}) is the zero value
IsEmptyStatus(status) == status.Id = 0 /\ status.IsHealthy = FALSE

\* UpdateHealth without its r.mu.Lock(): the call never waits
RegistryNotLocked == TRUE

\* r.mu.Lock() succeeds only while nobody holds the lock
RegistryLockFree == regMu = 0

\* ch <- status on a buffered channel: enqueue at the tail
SinkSend(buf, status) == Append(buf, status)

(***************************************************************************)
(* Loadbalancer: the healthy subset.                                        *)
(***************************************************************************)
\* addToHealthyBacks, the loop: every entry with this Id is appended once more
\* (range evaluates the slice once, so the appended copies are not revisited)
AppendMatches(hb, id) == hb \o SelectSeq(hb, LAMBDA b : b.Id = id)

\* addToHealthyBacks, after the loop: the registry's descriptor is appended
\* unless the registry does not know the Id
AppendLooked(hb, look) == IF look.exists THEN Append(hb, look.backend) ELSE hb

\* removeFromHealthyBackends: the first entry with this Id is removed
removeFromHealthyBackends(hb, id) ==
  IF \E i \in DOMAIN hb : hb[i].Id = id
  THEN RemoveAt(hb, CHOOSE i \in DOMAIN hb :
                      hb[i].Id = id /\ \A j \in 1..(i - 1) : hb[j].Id # id)
  ELSE hb

(***************************************************************************)
(* RoundRobinAlgorithm: the counter is a uint32 kept as two 16-bit halves.  *)
(***************************************************************************)
Half == 65536

\* the counter read without being advanced
LoadUint32(c) == c

\* atomic.AddUint32(&rr.current, 1), wrapping at 2^32
AddUint32(c) ==
  IF c[2] + 1 < Half THEN <<c[1], c[2] + 1>>
  ELSE IF c[1] + 1 < Half THEN <<c[1] + 1, 0>> ELSE <<0, 0>>

\* index % uint32(len(backends)) for index = hi * 2^16 + lo
ModLen(c, n) == (((c[1] % n) * (Half % n)) + (c[2] % n)) % n

\* GetNextBackend: the position chosen for the counter value obtained (1-based)
PickIndex(c, n) == ModLen(c, n) + 1

(***************************************************************************)
(* Start-up: CreateLoadBalancers, then hc.Start.                            *)
(***************************************************************************)
HealthInit ==
  /\ mode \in {"NewApp", "direct"}
  /\ routes \in (IF mode = "NewApp" THEN {NewAppRoutes} ELSE DirectRoutes)
  /\ appPc = "setup"
  /\ regNext = 1
  /\ crashed = FALSE
  /\ backendId = [i \in Ids |-> NoBackend]
  /\ backends = [i \in Ids |-> NoStatus]
  /\ subscribers = [i \in Ids |-> <<>>]
  /\ sinkBuf = [k \in Slots |-> <<>>]
  /\ regMu = 0
  /\ serverChan = <<>>
  /\ healthySet = {}
  /\ timers = [k \in Slots |-> <<>>]
  /\ wPc = [w \in Workers |-> "off"]
  /\ wBackend = [w \in Workers |-> 0]
  /\ wHealthy = [w \in Workers |-> FALSE]
  /\ wSub = [w \in Workers |-> 0]
  /\ probes = 0
  /\ healthyBackends = [r \in Routes |-> <<>>]
  /\ handlerBackends = [r \in Routes |-> <<>>]
  /\ handlerMade = {}
  /\ lbMu = [r \in Routes |-> 0]
  /\ cPc = [k \in Slots |-> "off"]
  /\ cUpdate = [k \in Slots |-> NoStatus]
  /\ current = [r \in Routes |-> <<0, 0>>]
  /\ requests = 0
  /\ observed = [i \in Ids |-> <<>>]
  /\ published = [i \in Ids |-> <<>>]
  /\ received = [k \in Slots |-> <<>>]
  /\ served = [r \in Routes |-> <<>>]
  /\ lastApplied = [r \in Routes |-> [i \in Ids |-> "none"]]
  /\ hbVersion = [r \in Routes |-> 0]

\* setupHealthAndRegister, one iteration: registerBackend (AddBackend, then
\* AddBackendToRegistry) and Subscribe for the copy of the configured backend
SetupBackend ==
  /\ ~crashed
  /\ appPc = "setup"
  /\ Len(serverChan) < ServerChanCap
  /\ regMu = 0
  /\ LET k == regNext
         b == routes[k]
     IN /\ serverChan' = Append(serverChan, k)
        /\ backendId' = AddBackendToRegistry(backendId, b)
        /\ subscribers' = Subscribe(subscribers, b.Id, k)
        /\ appPc' = IF k = LastSlotOf(RouteOf(k)) THEN "handler" ELSE "setup"
        /\ regNext' = k + 1
  /\ UNCHANGED <<lastApplied, mode, routes, crashed, backends, sinkBuf, regMu, healthySet, timers,
                 wPc, wBackend, wHealthy, wSub, probes, healthyBackends,
                 handlerBackends, handlerMade, lbMu, cPc, cUpdate, current, requests,
                 observed, published, received, served, hbVersion>>
  /\ UNCHANGED <<rrVars, limiterVars, inboundVars, apiVars, sliceVars>>

\* NewLBHandler for the route just set up: NewLoadBalancer starts one consumer
\* per sink on the Loadbalancer it returns; the handler keeps a copy of that
\* struct (lb: *NewLoadBalancer(...)), so its healthyBackends field is the
\* slice header as it was at the copy
NewLBHandler ==
  /\ ~crashed
  /\ appPc = "handler"
  /\ LET r == RouteOf(regNext - 1)
     IN /\ cPc' = [k \in Slots |-> IF RouteOf(k) = r THEN "recv" ELSE cPc[k]]
        /\ handlerBackends' = [handlerBackends EXCEPT ![r] = healthyBackends[r]]
        /\ handlerMade' = handlerMade \cup {r}
        /\ appPc' = IF r = Len(RouteSizes) THEN "created" ELSE "setup"
  /\ UNCHANGED <<lastApplied, mode, routes, regNext, crashed, backendId, backends, subscribers, sinkBuf,
                 regMu, serverChan, healthySet, timers, wPc, wBackend, wHealthy,
                 wSub, probes, healthyBackends, lbMu, cUpdate, current, requests, observed,
                 published, received, served, hbVersion>>
  /\ UNCHANGED <<rrVars, limiterVars, inboundVars, apiVars, sliceVars>>

\* NewApp after CreateLoadBalancers: NewTokenBucketLimiter, the server
\* goroutine, AddClient, and then rateLimiter.StartPeriod(ctx) called on the
\* start-up thread itself with a context that is never cancelled
NewAppStartPeriod ==
  /\ ~crashed
  /\ mode = "NewApp"
  /\ appPc = "created"
  /\ appPc' = "StartPeriod"
  /\ UNCHANGED <<lastApplied, mode, routes, regNext, crashed, backendId, backends, subscribers, sinkBuf,
                 regMu, serverChan, healthySet, timers, wPc, wBackend, wHealthy,
                 wSub, probes, healthyBackends, handlerBackends, handlerMade, lbMu, cPc,
                 cUpdate, current, requests, observed, published, received, served,
                 hbVersion>>
  /\ UNCHANGED <<rrVars, limiterVars, inboundVars, apiVars, sliceVars>>

\* hc.Start: the three workers. A direct caller (the integration test) calls it
\* after CreateLoadBalancers; NewApp reaches it only when StartPeriod returns,
\* that is, never
Start ==
  /\ ~crashed
  /\ mode = "direct"
  /\ appPc = "created"
  /\ appPc' = "started"
  /\ wPc' = [w \in Workers |-> "idle"]
  /\ UNCHANGED <<lastApplied, mode, routes, regNext, crashed, backendId, backends, subscribers, sinkBuf,
                 regMu, serverChan, healthySet, timers, wBackend, wHealthy,
                 wSub, probes, healthyBackends, handlerBackends, handlerMade, lbMu, cPc,
                 cUpdate, current, requests, observed, published, received, served,
                 hbVersion>>
  /\ UNCHANGED <<rrVars, limiterVars, inboundVars, apiVars, sliceVars>>

(***************************************************************************)
(* HealthChecker: worker, checkBackend, updateStatus.                       *)
(***************************************************************************)
startVars == <<mode, routes, appPc, regNext>>
registryMaps == <<backendId, subscribers>>
balancerVars == <<healthyBackends, handlerBackends, handlerMade, lbMu, cPc, cUpdate,
                  hbVersion>>
requestVars == <<current, requests, served>>

\* worker: for backend := range hc.serverChan. The workers run the same code
\* and differ in nothing but their number, so a queued backend is handed to the
\* lowest-numbered worker that waits
WorkerTake(w) ==
  /\ ~crashed
  /\ wPc[w] = "idle"
  /\ \A v \in Workers : v < w => wPc[v] # "idle"
  /\ serverChan # <<>>
  /\ probes < MaxProbes
  /\ wBackend' = [wBackend EXCEPT ![w] = Head(serverChan)]
  /\ serverChan' = Tail(serverChan)
  /\ probes' = probes + 1
  /\ wPc' = [wPc EXCEPT ![w] = "probe"]
  /\ UNCHANGED <<startVars, lastApplied, crashed, registryMaps, backends, sinkBuf, regMu, healthySet,
                 timers, wHealthy, wSub, balancerVars, requestVars, observed,
                 published, received>>
  /\ UNCHANGED <<rrVars, limiterVars, inboundVars, apiVars, sliceVars>>

\* checkBackend: the delay of the next check is hc.healthyFrequency after a
\* healthy probe and hc.unhealthyFrequency otherwise (the two durations are
\* kept by name)
healthyFrequency == "healthyFrequency"
unhealthyFrequency == "unhealthyFrequency"

\* a checker that waits the same time whatever the probe saw
nextCheckFixed(healthy) == healthyFrequency

nextCheck(healthy) == IF healthy THEN healthyFrequency ELSE unhealthyFrequency

\* time.AfterFunc(nextCheck, func() { hc.serverChan <- backend }): one more
\* timer armed for the backend
AfterFunc(t, k, healthy) == [t EXCEPT ![k] = Append(@, nextCheck(healthy))]

\* updateStatus: isHealthy && !exists, or !isHealthy && exists
IsEdge(isHealthy, exists) == (isHealthy /\ ~exists) \/ (~isHealthy /\ exists)

\* checkBackend up to updateStatus' first line: the GET of backend.URL +
\* backend.Health (healthy iff no error and status 200; the backend's answer is
\* the environment's choice), then _, exists := hc.healthySet.Load(backend.Id).
\* Without an edge updateStatus returns and time.AfterFunc is armed
Probe(w) ==
  /\ ~crashed
  /\ wPc[w] = "probe"
  /\ \E healthy \in BOOLEAN :
       LET id == routes[wBackend[w]].Id
           edge == IsEdge(healthy, id \in healthySet)
       IN /\ wHealthy' = [wHealthy EXCEPT ![w] = healthy]
          /\ observed' = [observed EXCEPT ![id] = Append(@, healthy)]
          /\ wPc' = [wPc EXCEPT ![w] = IF edge THEN "store" ELSE "idle"]
          /\ timers' = IF edge THEN timers ELSE AfterFunc(timers, wBackend[w], healthy)
          /\ wBackend' = IF edge THEN wBackend ELSE [wBackend EXCEPT ![w] = 0]
  /\ UNCHANGED <<startVars, lastApplied, crashed, registryMaps, backends, sinkBuf, regMu, serverChan,
                 healthySet, wSub, probes, balancerVars, requestVars, published,
                 received>>
  /\ UNCHANGED <<rrVars, limiterVars, inboundVars, apiVars, sliceVars>>

\* updateStatus: hc.healthySet.Store(backend.Id, true) / Delete(backend.Id)
StoreHealthy(w) ==
  /\ ~crashed
  /\ wPc[w] = "store"
  /\ LET id == routes[wBackend[w]].Id
     IN healthySet' = IF wHealthy[w] THEN healthySet \cup {id} ELSE healthySet \ {id}
  /\ wPc' = [wPc EXCEPT ![w] = "update"]
  /\ UNCHANGED <<startVars, lastApplied, crashed, registryMaps, backends, sinkBuf, regMu, serverChan,
                 timers, wBackend, wHealthy, wSub, probes, balancerVars,
                 requestVars, observed, published, received>>
  /\ UNCHANGED <<rrVars, limiterVars, inboundVars, apiVars, sliceVars>>

\* the status updateStatus hands to UpdateHealth
StatusOf(w) == [Id |-> routes[wBackend[w]].Id, IsHealthy |-> wHealthy[w]]

\* UpdateHealth, entry: the zero-valued status ends the process (log.Fatal);
\* otherwise r.mu.Lock() and r.backends[status.Id] = status
UpdateHealth(w) ==
  /\ ~crashed
  /\ wPc[w] = "update"
  /\ IF IsEmptyStatus(StatusOf(w))
     THEN /\ crashed' = TRUE
          /\ UNCHANGED <<backends, regMu, wPc, wSub, published>>
     ELSE /\ RegistryLockFree
          /\ regMu' = w
          /\ backends' = [backends EXCEPT ![StatusOf(w).Id] = StatusOf(w)]
          /\ published' = [published EXCEPT ![StatusOf(w).Id] = Append(@, StatusOf(w))]
          /\ wSub' = [wSub EXCEPT ![w] = 1]
          /\ wPc' = [wPc EXCEPT ![w] = "send"]
          /\ UNCHANGED crashed
  /\ UNCHANGED <<startVars, lastApplied, registryMaps, sinkBuf, serverChan, healthySet, timers,
                 wBackend, wHealthy, probes, balancerVars, requestVars, observed,
                 received>>
  /\ UNCHANGED <<rrVars, limiterVars, inboundVars, apiVars, sliceVars>>

\* UpdateHealth, the loop: ch <- status for the next subscriber of the Id,
\* blocking while that sink is full
SendStatus(w) ==
  /\ ~crashed
  /\ wPc[w] = "send"
  /\ wSub[w] <= Len(subscribers[StatusOf(w).Id])
  /\ LET ch == subscribers[StatusOf(w).Id][wSub[w]]
     IN /\ Len(sinkBuf[ch]) < SubscriberCap
        /\ sinkBuf' = [sinkBuf EXCEPT ![ch] = SinkSend(@, StatusOf(w))]
  /\ wSub' = [wSub EXCEPT ![w] = @ + 1]
  /\ UNCHANGED <<startVars, lastApplied, crashed, registryMaps, backends, regMu, serverChan, healthySet,
                 timers, wPc, wBackend, wHealthy, probes, balancerVars,
                 requestVars, observed, published, received>>
  /\ UNCHANGED <<rrVars, limiterVars, inboundVars, apiVars, sliceVars>>

\* UpdateHealth returns (the deferred r.mu.Unlock()), updateStatus returns, and
\* checkBackend arms time.AfterFunc(nextCheck, ...) for the backend
UpdateHealthReturn(w) ==
  /\ ~crashed
  /\ wPc[w] = "send"
  /\ wSub[w] > Len(subscribers[StatusOf(w).Id])
  /\ regMu' = IF regMu = w THEN 0 ELSE regMu
  /\ wSub' = [wSub EXCEPT ![w] = 0]
  /\ timers' = AfterFunc(timers, wBackend[w], wHealthy[w])
  /\ wBackend' = [wBackend EXCEPT ![w] = 0]
  /\ wPc' = [wPc EXCEPT ![w] = "idle"]
  /\ UNCHANGED <<startVars, lastApplied, crashed, registryMaps, backends, sinkBuf, serverChan,
                 healthySet, wHealthy, probes, balancerVars, requestVars,
                 observed, published, received>>
  /\ UNCHANGED <<rrVars, limiterVars, inboundVars, apiVars, sliceVars>>

\* a timer armed for the backend fires and its function runs:
\* hc.serverChan <- backend
TimerFire(k) ==
  /\ ~crashed
  /\ timers[k] # <<>>
  /\ probes < MaxProbes
  /\ Len(serverChan) < ServerChanCap
  /\ \E i \in DOMAIN timers[k] : timers' = [timers EXCEPT ![k] = RemoveAt(@, i)]
  /\ serverChan' = Append(serverChan, k)
  /\ UNCHANGED <<startVars, lastApplied, crashed, registryMaps, backends, sinkBuf, regMu, healthySet,
                 wPc, wBackend, wHealthy, wSub, probes, balancerVars, requestVars,
                 observed, published, received>>
  /\ UNCHANGED <<rrVars, limiterVars, inboundVars, apiVars, sliceVars>>

(***************************************************************************)
(* Loadbalancer: one consumer per sink (listenToHealthUpdates).             *)
(***************************************************************************)
workerVars == <<serverChan, healthySet, timers, wPc, wBackend, wHealthy, wSub,
                probes>>

\* r.mu.RLock() succeeds only while no writer holds the lock
RegistryReadable == regMu = 0

\* for update := range c
Receive(k) ==
  /\ ~crashed
  /\ cPc[k] = "recv"
  /\ sinkBuf[k] # <<>>
  /\ cUpdate' = [cUpdate EXCEPT ![k] = Head(sinkBuf[k])]
  /\ sinkBuf' = [sinkBuf EXCEPT ![k] = Tail(@)]
  /\ received' = [received EXCEPT ![k] = Append(@, Head(sinkBuf[k]))]
  /\ cPc' = [cPc EXCEPT ![k] = "apply"]
  /\ UNCHANGED <<startVars, lastApplied, crashed, registryMaps, backends, regMu, workerVars,
                 healthyBackends, handlerBackends, handlerMade, lbMu, hbVersion,
                 requestVars, observed, published>>
  /\ UNCHANGED <<rrVars, limiterVars, inboundVars, apiVars, sliceVars>>

\* updateProcess with IsHealthy: addToHealthyBacks takes lb.mu and runs its loop
AddToHealthyLoop(k) ==
  /\ ~crashed
  /\ cPc[k] = "apply"
  /\ cUpdate[k].IsHealthy
  /\ LET r == RouteOf(k)
         hb == AppendMatches(healthyBackends[r], cUpdate[k].Id)
     IN /\ lbMu[r] = 0
        /\ lbMu' = [lbMu EXCEPT ![r] = k]
        /\ healthyBackends' = [healthyBackends EXCEPT ![r] = hb]
        /\ hbVersion' = [hbVersion EXCEPT ![r] = IF hb = healthyBackends[r] THEN @ ELSE @ + 1]
  /\ cPc' = [cPc EXCEPT ![k] = "lookup"]
  /\ UNCHANGED <<startVars, lastApplied, crashed, registryMaps, backends, sinkBuf, regMu, workerVars,
                 handlerBackends, handlerMade, cUpdate, requestVars, observed, published,
                 received>>
  /\ UNCHANGED <<rrVars, limiterVars, inboundVars, apiVars, sliceVars>>

\* addToHealthyBacks, second half: GetBackendById under the registry's read
\* lock, the append, and the deferred lb.mu.Unlock()
AddToHealthyAppend(k) ==
  /\ ~crashed
  /\ cPc[k] = "lookup"
  /\ RegistryReadable
  /\ LET r == RouteOf(k)
         hb == AppendLooked(healthyBackends[r], GetBackendById(backendId, cUpdate[k].Id))
     IN /\ healthyBackends' = [healthyBackends EXCEPT ![r] = hb]
        /\ hbVersion' = [hbVersion EXCEPT ![r] = IF hb = healthyBackends[r] THEN @ ELSE @ + 1]
        /\ lbMu' = [lbMu EXCEPT ![r] = 0]
        /\ lastApplied' = [lastApplied EXCEPT ![r][cUpdate[k].Id] = "up"]
  /\ cPc' = [cPc EXCEPT ![k] = "recv"]
  /\ UNCHANGED <<startVars, crashed, registryMaps, backends, sinkBuf, regMu, workerVars,
                 handlerBackends, handlerMade, cUpdate, requestVars, observed, published,
                 received>>
  /\ UNCHANGED <<rrVars, limiterVars, inboundVars, apiVars, sliceVars>>

\* updateProcess without IsHealthy: removeFromHealthyBackends under lb.mu
RemoveUnhealthy(k) ==
  /\ ~crashed
  /\ cPc[k] = "apply"
  /\ ~cUpdate[k].IsHealthy
  /\ LET r == RouteOf(k)
         hb == removeFromHealthyBackends(healthyBackends[r], cUpdate[k].Id)
     IN /\ lbMu[r] = 0
        /\ lastApplied' = [lastApplied EXCEPT ![r][cUpdate[k].Id] = "down"]
        /\ healthyBackends' = [healthyBackends EXCEPT ![r] = hb]
        /\ hbVersion' = [hbVersion EXCEPT ![r] = IF hb = healthyBackends[r] THEN @ ELSE @ + 1]
  /\ cPc' = [cPc EXCEPT ![k] = "recv"]
  /\ UNCHANGED <<startVars, crashed, registryMaps, backends, sinkBuf, regMu, workerVars,
                 handlerBackends, handlerMade, lbMu, cUpdate, requestVars, observed,
                 published, received>>
  /\ UNCHANGED <<rrVars, limiterVars, inboundVars, apiVars, sliceVars>>

(***************************************************************************)
(* LoadBalancerHandler.ServeHTTP for an admitted request.                   *)
(***************************************************************************)
\* getHealthyBackends on the handler's own Loadbalancer value (h.lb)
getHealthyBackends(r) == handlerBackends[r]

\* ServeHTTP: 503 for an empty list, otherwise the strategy's pick
ServeHTTP(r) ==
  /\ ~crashed
  /\ appPc \in {"created", "StartPeriod", "started"}
  /\ r \in handlerMade
  /\ requests < MaxRequests
  /\ requests' = requests + 1
  /\ LET list == getHealthyBackends(r)
         res == IF Len(list) = 0 THEN 503 ELSE list[PickIndex(current[r], Len(list))].URL
     IN /\ current' = [current EXCEPT ![r] = IF Len(list) = 0 THEN @ ELSE AddUint32(@)]
        /\ served' = [served EXCEPT ![r] =
                        Append(@, [version |-> hbVersion[r],
                                   full |-> \A k \in SlotsOf(r) :
                                              routes[k] \in SeqToSet(healthyBackends[r]),
                                   toDown |-> \E k \in SlotsOf(r) :
                                                /\ routes[k].URL = res
                                                /\ lastApplied[r][routes[k].Id] = "down",
                                   res |-> res])]
  /\ UNCHANGED <<startVars, lastApplied, crashed, registryMaps, backends, sinkBuf, regMu, workerVars,
                 balancerVars, observed, published, received>>
  /\ UNCHANGED <<rrVars, limiterVars, inboundVars, apiVars, sliceVars>>

(***************************************************************************)
(* The health subsystem as a whole.                                         *)
(***************************************************************************)
HealthNext ==
  \/ SetupBackend
  \/ NewLBHandler
  \/ NewAppStartPeriod
  \/ Start
  \/ \E w \in Workers : WorkerTake(w)
  \/ \E w \in Workers : Probe(w)
  \/ \E w \in Workers : StoreHealthy(w)
  \/ \E w \in Workers : UpdateHealth(w)
  \/ \E w \in Workers : SendStatus(w)
  \/ \E w \in Workers : UpdateHealthReturn(w)
  \/ \E k \in Slots : TimerFire(k)
  \/ \E k \in Slots : Receive(k)
  \/ \E k \in Slots : AddToHealthyLoop(k)
  \/ \E k \in Slots : AddToHealthyAppend(k)
  \/ \E k \in Slots : RemoveUnhealthy(k)
  \/ \E r \in Routes : ServeHTTP(r)

(***************************************************************************)
(* RoundRobinAlgorithm.GetNextBackend under concurrent callers.             *)
(***************************************************************************)
Callers == 1..NumCallers

\* counter values a long-running strategy passes through: a fresh counter,
\* one about to carry into the high half, one about to wrap at 2^32
CounterStarts == {<<0, 0>>, <<0, Half - 2>>, <<Half - 1, Half - 2>>}

RRInit ==
  /\ rrLen \in 0..MaxLen
  /\ rrCurrent \in CounterStarts
  /\ rrPc = [c \in Callers |-> "idle"]
  /\ rrIndex = [c \in Callers |-> <<0, 0>>]
  /\ rrPicks = <<>>
  /\ rrValues = <<>>
  /\ rrErrors = 0

\* GetNextBackend up to the atomic add: an empty list returns the error and
\* leaves the counter alone; otherwise index := atomic.AddUint32(&rr.current, 1) - 1
GetNextBackend(c) ==
  /\ rrPc[c] = "idle"
  /\ Len(rrPicks) + rrErrors < MaxPicks
  /\ IF rrLen = 0
     THEN /\ rrErrors' = rrErrors + 1
          /\ UNCHANGED <<rrCurrent, rrPc, rrIndex, rrPicks, rrValues>>
     ELSE /\ rrCurrent' = AddUint32(rrCurrent)
          /\ rrIndex' = [rrIndex EXCEPT ![c] = rrCurrent]
          /\ rrValues' = Append(rrValues, rrCurrent)
          /\ rrPicks' = Append(rrPicks, PickIndex(rrCurrent, rrLen) - 1)
          /\ rrPc' = [rrPc EXCEPT ![c] = "picked"]
          /\ UNCHANGED rrErrors
  /\ UNCHANGED rrLen
  /\ UNCHANGED <<healthVars, limiterVars, inboundVars, apiVars, sliceVars>>

\* GetNextBackend: return backends[index%uint32(len(backends))], nil
GetNextBackendReturn(c) ==
  /\ rrPc[c] = "picked"
  /\ rrPc' = [rrPc EXCEPT ![c] = "idle"]
  /\ UNCHANGED <<rrLen, rrCurrent, rrIndex, rrPicks, rrValues, rrErrors>>
  /\ UNCHANGED <<healthVars, limiterVars, inboundVars, apiVars, sliceVars>>

RRNext ==
  \/ \E c \in Callers : GetNextBackend(c)
  \/ \E c \in Callers : GetNextBackendReturn(c)

(***************************************************************************)
(* TokenBucketLimiter. Keys are strings, kept as sequences of characters.   *)
(***************************************************************************)
KeyDefault == <<"d", "e", "f", "a", "u", "l", "t">>
KeyIp == <<"1", "2", "7", ".", "0", ".", "0", ".", "1">>
KeyEmpty == <<>>
Keys == {KeyDefault, KeyIp, KeyEmpty}

Loops == {1, 2}
Clients == 1..NumClients
NoClient == [Ip |-> <<"-">>, Capacity |-> -1, Interval |-> 0]

\* strings.Contains(identifier, c) for a one-character c
Contains(identifier, c) == \E i \in DOMAIN identifier : identifier[i] = c

\* getIPFromIdentifier
getIPFromIdentifier(identifier) ==
  IF Contains(identifier, ".") \/ Contains(identifier, ":") THEN identifier ELSE KeyEmpty

\* make(chan struct{}, capacity) filled with capacity tokens
FullBucket(capacity) == [cap |-> capacity, len |-> capacity]

\* a send that puts a token in whether or not the bucket is full
PutAlways(b) == [ok |-> TRUE, bucket |-> [b EXCEPT !.len = @ + 1]]

\* select { case bucket <- struct{}{}: ... default: ... }
TryPut(b) ==
  IF b.len < b.cap THEN [ok |-> TRUE, bucket |-> [b EXCEPT !.len = @ + 1]]
  ELSE [ok |-> FALSE, bucket |-> b]

\* a receive that reports success also on the default branch
TakeAlways(b) ==
  [ok |-> TRUE, bucket |-> IF b.len > 0 THEN [b EXCEPT !.len = @ - 1] ELSE b]

\* select { case <-bucket: return true; default: return false }
TryTake(b) ==
  IF b.len > 0 THEN [ok |-> TRUE, bucket |-> [b EXCEPT !.len = @ - 1]]
  ELSE [ok |-> FALSE, bucket |-> b]

\* the channels the bucket map holds
Mapped == {tokenBucket[k] : k \in Keys} \ {0}

\* NewTokenBucketLimiter(ctx, limit, period, log): the default bucket, full,
\* and go tb.StartPeriod(ctx). limit <= 0 panics in the constructor (division
\* by zero, makechan), so a limiter that exists has limit >= 1
LimiterInit ==
  /\ defaultCap \in 1..MaxCap
  /\ chans = <<FullBucket(defaultCap)>>
  /\ tokenBucket = [k \in Keys |-> IF k = KeyDefault THEN 1 ELSE 0]
  /\ clients = [k \in Keys |-> NoClient]
  /\ tbWriter = 0
  /\ tbReaders = {}
  /\ loopPc = [l \in Loops |-> IF l = 1 THEN "wait" ELSE "off"]
  /\ ctxDone = FALSE
  /\ allowPc = [c \in Clients |-> "idle"]
  /\ allowChan = [c \in Clients |-> 0]
  /\ fatal = FALSE
  /\ stats = <<[calls |-> 0, admitted |-> 0, ticks |-> 0]>>
  /\ nAllows = 0
  /\ nTicks = 0
  /\ nManage = 0

\* StartPeriod called once more on the same limiter (NewApp does, after the
\* constructor has started the first loop)
StartPeriod ==
  /\ ~fatal
  /\ loopPc[2] = "off"
  /\ loopPc' = [loopPc EXCEPT ![2] = "wait"]
  /\ UNCHANGED <<tokenBucket, chans, clients, defaultCap, tbWriter, tbReaders, ctxDone,
                 allowPc, allowChan, fatal, stats, nAllows, nTicks, nManage>>
  /\ UNCHANGED <<healthVars, rrVars, inboundVars, apiVars, sliceVars>>

\* the context is cancelled
Cancel ==
  /\ ~fatal
  /\ ~ctxDone
  /\ ctxDone' = TRUE
  /\ UNCHANGED <<tokenBucket, chans, clients, defaultCap, tbWriter, tbReaders, loopPc,
                 allowPc, allowChan, fatal, stats, nAllows, nTicks, nManage>>
  /\ UNCHANGED <<healthVars, rrVars, inboundVars, apiVars, sliceVars>>

\* a loop that goes round again on ctx.Done()
LoopStaysOnCancel(l) ==
  /\ ~fatal
  /\ loopPc[l] = "wait"
  /\ ctxDone
  /\ UNCHANGED <<limiterVars, healthVars, rrVars, inboundVars, apiVars, sliceVars>>

\* StartPeriod: case <-ctx.Done(): return
LoopExit(l) ==
  /\ ~fatal
  /\ loopPc[l] = "wait"
  /\ ctxDone
  /\ loopPc' = [loopPc EXCEPT ![l] = "done"]
  /\ UNCHANGED <<tokenBucket, chans, clients, defaultCap, tbWriter, tbReaders, ctxDone,
                 allowPc, allowChan, fatal, stats, nAllows, nTicks, nManage>>
  /\ UNCHANGED <<healthVars, rrVars, inboundVars, apiVars, sliceVars>>

\* StartPeriod: case <-ticker.C, and refillBuckets takes tb.mu.Lock()
RefillLock(l) ==
  /\ ~fatal
  /\ loopPc[l] = "wait"
  /\ nTicks < MaxTicks
  /\ tbWriter = 0
  /\ tbReaders = {}
  /\ tbWriter' = l
  /\ nTicks' = nTicks + 1
  /\ loopPc' = [loopPc EXCEPT ![l] = "pass"]
  /\ UNCHANGED <<tokenBucket, chans, clients, defaultCap, tbReaders, ctxDone, allowPc,
                 allowChan, fatal, stats, nAllows, nManage>>
  /\ UNCHANGED <<healthVars, rrVars, inboundVars, apiVars, sliceVars>>

\* refillBuckets: the loop over the bucket map, one non-blocking send per
\* bucket, and the deferred Unlock
refillBuckets(l) ==
  /\ ~fatal
  /\ loopPc[l] = "pass"
  /\ chans' = [ch \in DOMAIN chans |->
                 IF ch \in Mapped THEN TryPut(chans[ch]).bucket ELSE chans[ch]]
  /\ stats' = [ch \in DOMAIN stats |->
                 IF ch \in Mapped /\ stats[ch].calls > 0
                 THEN [stats[ch] EXCEPT !.ticks = @ + 1] ELSE stats[ch]]
  /\ tbWriter' = 0
  /\ loopPc' = [loopPc EXCEPT ![l] = "wait"]
  /\ UNCHANGED <<tokenBucket, clients, defaultCap, tbReaders, ctxDone, allowPc,
                 allowChan, fatal, nAllows, nTicks, nManage>>
  /\ UNCHANGED <<healthVars, rrVars, inboundVars, apiVars, sliceVars>>

\* Allow: the bucket the call is decided against: the entry for
\* getIPFromIdentifier(ip) if the map has one, else the entry for "default"
ResolveBucket(ip) ==
  IF tokenBucket[getIPFromIdentifier(ip)] # 0
  THEN tokenBucket[getIPFromIdentifier(ip)]
  ELSE tokenBucket[KeyDefault]

\* Allow(ip): tb.mu.RLock() and the map lookups
AllowLookupKey(c, ip) ==
  /\ ~fatal
  /\ allowPc[c] = "idle"
  /\ nAllows < MaxAllows
  /\ tbWriter = 0
  /\ allowChan' = [allowChan EXCEPT ![c] = ResolveBucket(ip)]
  /\ tbReaders' = tbReaders \cup {c}
  /\ nAllows' = nAllows + 1
  /\ allowPc' = [allowPc EXCEPT ![c] = "take"]
  /\ UNCHANGED <<tokenBucket, chans, clients, defaultCap, tbWriter, loopPc, ctxDone,
                 fatal, stats, nTicks, nManage>>
  /\ UNCHANGED <<healthVars, rrVars, inboundVars, apiVars, sliceVars>>

\* Allow called by caller c with any identifier
AllowLookup(c) == \E ip \in Keys : AllowLookupKey(c, ip)

\* Allow: the non-blocking receive on the channel found (a nil channel is
\* never ready), the result, and the deferred RUnlock
AllowTake(c) ==
  /\ ~fatal
  /\ allowPc[c] = "take"
  /\ LET ch == allowChan[c]
         got == IF ch = 0 THEN [ok |-> FALSE] ELSE TryTake(chans[ch])
     IN /\ chans' = IF ch = 0 THEN chans ELSE [chans EXCEPT ![ch] = got.bucket]
        /\ stats' = IF ch = 0 THEN stats
                    ELSE [stats EXCEPT ![ch].calls = @ + 1,
                                       ![ch].admitted = @ + (IF got.ok THEN 1 ELSE 0)]
  /\ tbReaders' = tbReaders \ {c}
  /\ allowPc' = [allowPc EXCEPT ![c] = "idle"]
  /\ UNCHANGED <<tokenBucket, clients, defaultCap, tbWriter, loopPc, ctxDone,
                 allowChan, fatal, nAllows, nTicks, nManage>>
  /\ UNCHANGED <<healthVars, rrVars, inboundVars, apiVars, sliceVars>>

\* tb.mu is held by somebody while the bucket map is written: AddClient and
\* DeleteClient take only clientStore.mu, so their map writes are not ordered
\* with the reads of Allow and of the refill pass
MapInUse == tbWriter # 0 \/ tbReaders # {}

\* what an unsynchronised map write can do to the process: nothing, or, when
\* another goroutine is inside the map, the runtime's fatal error
RaceOutcomes == IF MapInUse THEN {FALSE, TRUE} ELSE {FALSE}

\* AddClient(config), under clientStore.mu: a full channel of config.Capacity,
\* clients[config.Ip] = config, tokenBucket[config.Ip] = ch. A negative
\* Capacity panics in make and changes nothing
StoreClient(config) ==
  IF config.Capacity < 0
  THEN UNCHANGED <<tokenBucket, chans, clients, stats, fatal>>
  ELSE /\ chans' = Append(chans, FullBucket(config.Capacity))
       /\ stats' = Append(stats, [calls |-> 0, admitted |-> 0, ticks |-> 0])
       /\ clients' = [clients EXCEPT ![config.Ip] = config]
       /\ tokenBucket' = [tokenBucket EXCEPT ![config.Ip] = Len(chans) + 1]
       /\ fatal' \in RaceOutcomes

\* AddClient called directly (NewApp registers 127.0.0.1 this way)
AddClient(config) ==
  /\ ~fatal
  /\ nManage < MaxManage
  /\ nManage' = nManage + 1
  /\ StoreClient(config)
  /\ UNCHANGED <<defaultCap, tbWriter, tbReaders, loopPc, ctxDone, allowPc,
                 allowChan, nAllows, nTicks>>
  /\ UNCHANGED <<healthVars, rrVars, inboundVars, apiVars, sliceVars>>

\* DeleteClient(clientIp), under clientStore.mu: for a registered client its
\* config and its bucket are deleted; otherwise nothing happens
\* a delete that forgets the bucket map
DropConfigOnly(clientIp) ==
  IF clients[clientIp] # NoClient
  THEN /\ clients' = [clients EXCEPT ![clientIp] = NoClient]
       /\ UNCHANGED <<tokenBucket, fatal>>
  ELSE UNCHANGED <<clients, tokenBucket, fatal>>

DropClient(clientIp) ==
  IF clients[clientIp] # NoClient
  THEN /\ clients' = [clients EXCEPT ![clientIp] = NoClient]
       /\ tokenBucket' = [k \in Keys |->
                            IF k = clientIp \/ (clients[clientIp].Ip # KeyEmpty
                                                /\ k = clients[clientIp].Ip)
                            THEN 0 ELSE tokenBucket[k]]
       /\ fatal' \in RaceOutcomes
  ELSE UNCHANGED <<clients, tokenBucket, fatal>>

\* DeleteClient called directly
DeleteClient(clientIp) ==
  /\ ~fatal
  /\ nManage < MaxManage
  /\ nManage' = nManage + 1
  /\ DropClient(clientIp)
  /\ UNCHANGED <<chans, defaultCap, tbWriter, tbReaders, loopPc, ctxDone, allowPc,
                 allowChan, stats, nAllows, nTicks>>
  /\ UNCHANGED <<healthVars, rrVars, inboundVars, apiVars, sliceVars>>

\* GetClient(clientIp), under clientStore.mu's read lock: the stored config,
\* NoClient standing for (nil, false)
GetClient(clientIp) == clients[clientIp]

\* ListClients(), under clientStore.mu's read lock: the stored configs, in
\* the map's iteration order (any), here as a set
ListClients == {clients[k] : k \in {j \in Keys : clients[j] # NoClient}}

(***************************************************************************)
(* ClientsHandler: the /clients management surface, not rate limited.       *)
(***************************************************************************)
ApiInit ==
  /\ apiStatus = 0
  /\ apiBody = {}
  /\ nApi = 0

\* a handler that does not look at the key
EmptyKeyUnchecked(ip) == FALSE

\* handleCreateClient: config.Ip == "", handleDeleteClient: clientIp == ""
EmptyKey(ip) == ip = KeyEmpty

\* every POST is answered 201
CreatedAlways(ip) == 201

\* handleCreateClient: 400 for an empty client_ip, else 201 once AddClient
\* has returned
CreateStatus(ip) == IF ip = KeyEmpty THEN 400 ELSE 201

\* handleDeleteClient: 400 for an empty client_ip, else 204 once
\* DeleteClient has returned
DeleteStatus(ip) == IF ip = KeyEmpty THEN 400 ELSE 204

\* POST /clients with a body that decodes to config. A panic in AddClient
\* (negative capacity) is recovered by the server and the connection is
\* dropped; a fatal map race ends the process: no response either way
handleCreateClient(config) ==
  /\ ~fatal
  /\ nApi < MaxApi
  /\ nApi' = nApi + 1
  /\ IF EmptyKey(config.Ip)
     THEN /\ UNCHANGED <<tokenBucket, chans, clients, stats, fatal>>
          /\ apiStatus' = CreateStatus(config.Ip)
     ELSE /\ StoreClient(config)
          /\ apiStatus' = IF config.Capacity < 0 \/ fatal' THEN 0
                          ELSE CreateStatus(config.Ip)
  /\ UNCHANGED <<defaultCap, tbWriter, tbReaders, loopPc, ctxDone, allowPc,
                 allowChan, nAllows, nTicks, nManage, apiBody>>
  /\ UNCHANGED <<healthVars, rrVars, inboundVars, sliceVars>>

\* DELETE /clients?client_ip=clientIp
handleDeleteClient(clientIp) ==
  /\ ~fatal
  /\ nApi < MaxApi
  /\ nApi' = nApi + 1
  /\ IF EmptyKey(clientIp)
     THEN /\ UNCHANGED <<tokenBucket, clients, fatal>>
          /\ apiStatus' = DeleteStatus(clientIp)
     ELSE /\ DropClient(clientIp)
          /\ apiStatus' = IF fatal' THEN 0 ELSE DeleteStatus(clientIp)
  /\ UNCHANGED <<chans, defaultCap, tbWriter, tbReaders, loopPc, ctxDone, allowPc,
                 allowChan, stats, nAllows, nTicks, nManage, apiBody>>
  /\ UNCHANGED <<healthVars, rrVars, inboundVars, sliceVars>>

\* POST /clients with a body json.Decode rejects: 400 before anything else
handleCreateClientBadBody ==
  /\ ~fatal
  /\ nApi < MaxApi
  /\ nApi' = nApi + 1
  /\ apiStatus' = 400
  /\ UNCHANGED <<limiterVars, healthVars, rrVars, inboundVars, apiBody, sliceVars>>

\* ClientsHandler's default case: a method other than GET, POST, DELETE
handleMethodNotAllowed ==
  /\ ~fatal
  /\ nApi < MaxApi
  /\ nApi' = nApi + 1
  /\ apiStatus' = 405
  /\ UNCHANGED <<limiterVars, healthVars, rrVars, inboundVars, apiBody, sliceVars>>

\* GET /clients: the JSON array of ListClients()
handleGetClients ==
  /\ ~fatal
  /\ nApi < MaxApi
  /\ nApi' = nApi + 1
  /\ apiStatus' = 200
  /\ apiBody' = ListClients
  /\ UNCHANGED <<limiterVars, healthVars, rrVars, inboundVars, sliceVars>>

\* the configs handed to AddClient
Configs == {[Ip |-> k, Capacity |-> n, Interval |-> 30] : k \in Keys, n \in (-1)..MaxCap}

LimiterNext ==
  \/ StartPeriod
  \/ Cancel
  \/ \E l \in Loops : LoopExit(l)
  \/ \E l \in Loops : RefillLock(l)
  \/ \E l \in Loops : refillBuckets(l)
  \/ \E c \in Clients : AllowLookup(c)
  \/ \E c \in Clients : AllowTake(c)
  \/ \E config \in Configs : AddClient(config)
  \/ \E k \in Keys : DeleteClient(k)

\* the management surface next to callers of Allow
ClientsNext ==
  \/ \E config \in Configs : handleCreateClient(config)
  \/ \E k \in Keys : handleDeleteClient(k)
  \/ handleGetClients
  \/ handleCreateClientBadBody
  \/ handleMethodNotAllowed
  \/ \E c \in Clients : AllowLookup(c)
  \/ \E c \in Clients : AllowTake(c)

(***************************************************************************)
(* One inbound request on a proxied route: rateLimitMiddleware, then        *)
(* LoadBalancerHandler.ServeHTTP, proxyRequest and executeWithRetries.      *)
(***************************************************************************)
\* proxyRequest: h.executeWithRetries(ctx, req, body, 3)
maxRetries == 3

Requests == 1..NumRequests

\* what one client.Do returns: 0 for a transport error (resp nil, err set),
\* otherwise the status of the backend's response
Outcomes == {0, 200, 304, 404, 429, 500}

\* getClientIP: the host of r.RemoteAddr, or "" when SplitHostPort fails
RequestKeys == {KeyIp, KeyEmpty}

\* the lists getHealthyBackends can hand to ServeHTTP: the first n positions
HealthyLists == {[i \in 1..n |-> i] : n \in 0..MaxHealthy}

\* executeWithRetries: resp.StatusCode >= 200 && resp.StatusCode < 300
IsSuccess(st) == st >= 200 /\ st < 300

\* the comparison with 429 the wrong way round
IsTerminalOnly429(st) == st >= 400 /\ st < 500 /\ st = 429

\* executeWithRetries: StatusCode >= 400 && StatusCode < 500 && StatusCode != 429
IsTerminal(st) == st >= 400 /\ st < 500 /\ st # 429

\* a loop that runs once more than maxRetries
LoopOneMore(i) == i <= maxRetries

\* executeWithRetries: for i := 0; i < maxRetries; i++
LoopContinues(i) == i < maxRetries

\* executeWithRetries: if i < maxRetries-1 { ...wait... }
WaitsAfter(i) == i < maxRetries - 1

\* a wait that is a plain sleep
TimerAlways(done, cancelPc, i) == TRUE

\* executeWithRetries: the select takes case <-time.After(backoff). A
\* request cancelled during the wait wakes the select through ctx.Done();
\* the backoff is i seconds plus rand.Intn(100) ms, so after the first
\* attempt it can be zero, and a select entered with both cases ready takes
\* either
TimerCaseTaken(done, cancelPc, i) == ~done \/ (cancelPc # "wait" /\ i = 0)

\* a middleware that calls next whatever Allow said
NextAlways(allowed) == "serve"

\* rateLimitMiddleware: if !limiter.Allow(ip) { ...429...; return }; next.ServeHTTP
MiddlewareNext(allowed) == IF allowed THEN "serve" ELSE "done"

\* the configured backends, healthy or not
ConfiguredList(list) == [i \in 1..MaxHealthy |-> i]

\* ServeHTTP: backends := h.lb.getHealthyBackends()
HealthyList(list) == list

InboundInit ==
  /\ rqList \in HealthyLists
  /\ rqCounter = <<0, 0>>
  /\ rqPc = [q \in Requests |-> "new"]
  /\ rqKey = [q \in Requests |-> KeyEmpty]
  /\ rqAllowed = [q \in Requests |-> "none"]
  /\ rqInvoked = [q \in Requests |-> 0]
  /\ rqBackend = [q \in Requests |-> 0]
  /\ rqI = [q \in Requests |-> 0]
  /\ rqAttempts = [q \in Requests |-> <<>>]
  /\ rqDone = [q \in Requests |-> FALSE]
  /\ rqCancelPc = [q \in Requests |-> "none"]
  /\ rqCancelAt = [q \in Requests |-> 0]
  /\ rqStatus = [q \in Requests |-> 0]
  /\ rqRelayed = [q \in Requests |-> FALSE]

\* the end of a request: the status written and whether it is a backend's
Finish(q, status, relayed) ==
  /\ rqStatus' = [rqStatus EXCEPT ![q] = status]
  /\ rqRelayed' = [rqRelayed EXCEPT ![q] = relayed]
  /\ rqPc' = [rqPc EXCEPT ![q] = "done"]

\* rateLimitMiddleware: ip := getClientIP(r); limiter.Allow(ip); 429 with the
\* JSON body when Allow says no, otherwise on to next.ServeHTTP
rateLimitMiddleware(q) ==
  /\ rqPc[q] = "new"
  /\ \E key \in RequestKeys :
       LET ch == ResolveBucket(key)
           got == IF ch = 0 THEN [ok |-> FALSE] ELSE TryTake(chans[ch])
       IN /\ rqKey' = [rqKey EXCEPT ![q] = key]
          /\ chans' = IF ch = 0 THEN chans ELSE [chans EXCEPT ![ch] = got.bucket]
          /\ stats' = IF ch = 0 THEN stats
                      ELSE [stats EXCEPT ![ch].calls = @ + 1,
                                         ![ch].admitted = @ + (IF got.ok THEN 1 ELSE 0)]
          /\ rqAllowed' = [rqAllowed EXCEPT ![q] = IF got.ok THEN "admit" ELSE "reject"]
          /\ rqPc' = [rqPc EXCEPT ![q] = MiddlewareNext(got.ok)]
          /\ rqStatus' = [rqStatus EXCEPT ![q] = IF MiddlewareNext(got.ok) = "done"
                                                  THEN 429 ELSE @]
  /\ UNCHANGED <<rqList, rqCounter, rqInvoked, rqBackend, rqI, rqAttempts, rqDone,
                 rqCancelPc, rqCancelAt, rqRelayed>>
  /\ UNCHANGED <<tokenBucket, clients, defaultCap, tbWriter, tbReaders, loopPc, ctxDone,
                 allowPc, allowChan, fatal, nAllows, nTicks, nManage>>
  /\ UNCHANGED <<healthVars, rrVars, apiVars, sliceVars>>

\* LoadBalancerHandler.ServeHTTP: 503 for an empty list (or for the
\* strategy's error), otherwise the strategy's pick and on to proxyRequest
HandlerServeHTTP(q) ==
  /\ rqPc[q] = "serve"
  /\ rqInvoked' = [rqInvoked EXCEPT ![q] = @ + 1]
  /\ LET list == HealthyList(rqList)
     IN IF Len(list) = 0
        THEN /\ Finish(q, 503, FALSE)
             /\ UNCHANGED <<rqCounter, rqBackend>>
        ELSE /\ rqCounter' = AddUint32(rqCounter)
             /\ rqBackend' = [rqBackend EXCEPT ![q] = list[PickIndex(rqCounter, Len(list))]]
             /\ rqPc' = [rqPc EXCEPT ![q] = "clone"]
             /\ UNCHANGED <<rqStatus, rqRelayed>>
  /\ UNCHANGED <<rqList, rqKey, rqAllowed, rqI, rqAttempts, rqDone, rqCancelPc, rqCancelAt>>
  /\ UNCHANGED <<healthVars, rrVars, limiterVars, apiVars, sliceVars>>

\* proxyRequest up to the retry loop: cloneRequest reads the inbound body and
\* builds the upstream request; if either fails the answer is 500
proxyRequest(q) ==
  /\ rqPc[q] = "clone"
  /\ \E cloned \in BOOLEAN :
       IF cloned
       THEN /\ rqPc' = [rqPc EXCEPT ![q] = "do"]
            /\ rqI' = [rqI EXCEPT ![q] = 0]
            /\ UNCHANGED <<rqStatus, rqRelayed>>
       ELSE /\ Finish(q, 500, FALSE)
            /\ UNCHANGED rqI
  /\ UNCHANGED <<rqList, rqCounter, rqKey, rqAllowed, rqInvoked, rqBackend, rqAttempts,
                 rqDone, rqCancelPc, rqCancelAt>>
  /\ UNCHANGED <<healthVars, rrVars, limiterVars, apiVars, sliceVars>>

\* proxyRequest after executeWithRetries returned (resp, err) for the outcome
\* o of the last client.Do: 502 for an error, otherwise copyResponse
Reply(q, o) == IF o = 0 THEN Finish(q, 502, FALSE) ELSE Finish(q, o, TRUE)

\* executeWithRetries, one pass of the loop body: client.Do(req.WithContext(ctx))
\* (an error once ctx is cancelled), return on 2xx, break on a 4xx other than
\* 429, otherwise wait if i < maxRetries-1, else i++ and the loop test
Attempt(q) ==
  /\ rqPc[q] = "do"
  /\ \E o \in (IF rqDone[q] THEN {0} ELSE Outcomes) :
       /\ rqAttempts' = [rqAttempts EXCEPT ![q] = Append(@, o)]
       /\ IF o # 0 /\ (IsSuccess(o) \/ IsTerminal(o))
          THEN Reply(q, o) /\ UNCHANGED rqI
          ELSE IF WaitsAfter(rqI[q])
          THEN /\ rqPc' = [rqPc EXCEPT ![q] = "wait"]
               /\ UNCHANGED <<rqI, rqStatus, rqRelayed>>
          ELSE /\ rqI' = [rqI EXCEPT ![q] = @ + 1]
               /\ IF LoopContinues(rqI[q] + 1)
                  THEN UNCHANGED <<rqPc, rqStatus, rqRelayed>>
                  ELSE Reply(q, o)
  /\ UNCHANGED <<rqList, rqCounter, rqKey, rqAllowed, rqInvoked, rqBackend, rqDone,
                 rqCancelPc, rqCancelAt>>
  /\ UNCHANGED <<healthVars, rrVars, limiterVars, apiVars, sliceVars>>

\* executeWithRetries: case <-time.After(backoff), then i++ and the next pass
BackoffElapsed(q) ==
  /\ rqPc[q] = "wait"
  /\ TimerCaseTaken(rqDone[q], rqCancelPc[q], rqI[q])
  /\ rqI' = [rqI EXCEPT ![q] = @ + 1]
  /\ rqPc' = [rqPc EXCEPT ![q] = "do"]
  /\ UNCHANGED <<rqList, rqCounter, rqKey, rqAllowed, rqInvoked, rqBackend, rqAttempts,
                 rqDone, rqCancelPc, rqCancelAt, rqStatus, rqRelayed>>
  /\ UNCHANGED <<healthVars, rrVars, limiterVars, apiVars, sliceVars>>

\* executeWithRetries: case <-ctx.Done(): return nil, ctx.Err(), which
\* proxyRequest answers with 502
BackoffCancelled(q) ==
  /\ rqPc[q] = "wait"
  /\ rqDone[q]
  /\ Finish(q, 502, FALSE)
  /\ UNCHANGED <<rqList, rqCounter, rqKey, rqAllowed, rqInvoked, rqBackend, rqI,
                 rqAttempts, rqDone, rqCancelPc, rqCancelAt>>
  /\ UNCHANGED <<healthVars, rrVars, limiterVars, apiVars, sliceVars>>

\* the client goes away: r.Context() is cancelled
CancelRequest(q) ==
  /\ rqPc[q] # "done"
  /\ ~rqDone[q]
  /\ rqDone' = [rqDone EXCEPT ![q] = TRUE]
  /\ rqCancelPc' = [rqCancelPc EXCEPT ![q] = rqPc[q]]
  /\ rqCancelAt' = [rqCancelAt EXCEPT ![q] = Len(rqAttempts[q])]
  /\ UNCHANGED <<rqList, rqCounter, rqPc, rqKey, rqAllowed, rqInvoked, rqBackend, rqI,
                 rqAttempts, rqStatus, rqRelayed>>
  /\ UNCHANGED <<healthVars, rrVars, limiterVars, apiVars, sliceVars>>

InboundNext ==
  \/ \E q \in Requests : rateLimitMiddleware(q)
  \/ \E q \in Requests : HandlerServeHTTP(q)
  \/ \E q \in Requests : proxyRequest(q)
  \/ \E q \in Requests : Attempt(q)
  \/ \E q \in Requests : BackoffElapsed(q)
  \/ \E q \in Requests : BackoffCancelled(q)
  \/ \E q \in Requests : CancelRequest(q)

(***************************************************************************)
(* Loadbalancer.healthyBackends as a Go slice: a header (array, length)     *)
(* over a backing array that append and copy write in place. One request    *)
(* reads the list of the Loadbalancer the consumers write.                  *)
(***************************************************************************)
\* the identities the registry knows (NewBackend's)
SliceIds == 1..NumBackends

NilSlice == [arr |-> 0, len |-> 0]

\* cap(s)
SliceCap(arrays, s) == IF s.arr = 0 THEN 0 ELSE Len(arrays[s.arr])

\* the elements s[0:len(s)] as they are in the backing array now
SliceView(arrays, s) == [i \in 1..s.len |-> arrays[s.arr][i]]

\* the capacity append gives a slice that has to grow (the gc runtime doubles
\* small slices; the first element gets an array of one)
GrownCap(cap) == IF cap = 0 THEN 1 ELSE 2 * cap

\* append(s, x): in place while len(s) < cap(s), else into a new array
SliceAppend(h, x) ==
  IF h.slice.len < SliceCap(h.arrays, h.slice)
  THEN [arrays |-> [h.arrays EXCEPT ![h.slice.arr][h.slice.len + 1] = x],
        slice |-> [h.slice EXCEPT !.len = @ + 1]]
  ELSE LET old == SliceView(h.arrays, h.slice)
           new == [i \in 1..GrownCap(SliceCap(h.arrays, h.slice)) |->
                     IF i <= h.slice.len THEN old[i]
                     ELSE IF i = h.slice.len + 1 THEN x ELSE 0]
       IN [arrays |-> Append(h.arrays, new),
           slice |-> [arr |-> Len(h.arrays) + 1, len |-> h.slice.len + 1]]

RECURSIVE SliceAppendAll(_, _)
SliceAppendAll(h, xs) ==
  IF xs = <<>> THEN h ELSE SliceAppendAll(SliceAppend(h, Head(xs)), Tail(xs))

\* getHealthyBackends: return lb.healthyBackends, the header itself
SliceReturned(h) == h

\* copy(s[i:], s[i+1:]) and s = s[:len(s)-1], in the array s lives in
SliceDelete(h, i) ==
  [arrays |-> [h.arrays EXCEPT ![h.slice.arr] =
                 [j \in DOMAIN @ |-> IF i <= j /\ j < h.slice.len THEN @[j + 1] ELSE @[j]]],
   slice |-> [h.slice EXCEPT !.len = @ - 1]]

SliceInit ==
  /\ lbArrays = <<>>
  /\ lbSlice = NilSlice
  /\ lbCurrent = <<0, 0>>
  /\ reqPc = "new"
  /\ reqSlice = NilSlice
  /\ reqSeen = <<>>
  /\ reqPick = 0
  /\ nUpdates = 0

\* a Loadbalancer nobody uses
SliceIdle == SliceInit

\* addToHealthyBacks(id) under lb.mu: every entry with this Id is appended
\* once more (range reads the slice as it was at the start), then the
\* registry's descriptor is appended
SliceAddToHealthyBacks(id) ==
  /\ nUpdates < MaxUpdates
  /\ nUpdates' = nUpdates + 1
  /\ LET h == [arrays |-> lbArrays, slice |-> lbSlice]
         matches == SelectSeq(SliceView(lbArrays, lbSlice), LAMBDA b : b = id)
         res == SliceAppend(SliceAppendAll(h, matches), id)
     IN /\ lbArrays' = res.arrays
        /\ lbSlice' = res.slice
  /\ UNCHANGED <<lbCurrent, reqPc, reqSlice, reqSeen, reqPick>>
  /\ UNCHANGED <<healthVars, rrVars, limiterVars, inboundVars, apiVars>>

\* removeFromHealthyBackends(backendId) under lb.mu: the first entry with
\* this Id is removed by shifting the tail down
SliceRemoveFromHealthyBackends(id) ==
  /\ nUpdates < MaxUpdates
  /\ nUpdates' = nUpdates + 1
  /\ LET h == [arrays |-> lbArrays, slice |-> lbSlice]
         view == SliceView(lbArrays, lbSlice)
         res == IF \E i \in DOMAIN view : view[i] = id
                THEN SliceDelete(h, CHOOSE i \in DOMAIN view :
                                      view[i] = id
                                      /\ \A j \in 1..(i - 1) : view[j] # id)
                ELSE h
     IN /\ lbArrays' = res.arrays
        /\ lbSlice' = res.slice
  /\ UNCHANGED <<lbCurrent, reqPc, reqSlice, reqSeen, reqPick>>
  /\ UNCHANGED <<healthVars, rrVars, limiterVars, inboundVars, apiVars>>

\* ServeHTTP: backends := lb.getHealthyBackends(), under lb.mu.RLock()
SliceGetHealthyBackends ==
  /\ reqPc = "new"
  /\ LET res == SliceReturned([arrays |-> lbArrays, slice |-> lbSlice])
     IN /\ lbArrays' = res.arrays
        /\ reqSlice' = res.slice
        /\ reqSeen' = SliceView(res.arrays, res.slice)
  /\ reqPc' = "got"
  /\ UNCHANGED <<lbSlice, lbCurrent, reqPick, nUpdates>>
  /\ UNCHANGED <<healthVars, rrVars, limiterVars, inboundVars, apiVars>>

\* ServeHTTP: len(backends) == 0 is answered 503, otherwise
\* lb.Algorithm.GetNextBackend(backends) reads the element it picks
SliceGetNextBackend ==
  /\ reqPc = "got"
  /\ reqPc' = "done"
  /\ IF reqSlice.len = 0
     THEN UNCHANGED <<lbCurrent, reqPick>>
     ELSE /\ reqPick' = SliceView(lbArrays, reqSlice)[PickIndex(lbCurrent, reqSlice.len)]
          /\ lbCurrent' = AddUint32(lbCurrent)
  /\ UNCHANGED <<lbArrays, lbSlice, reqSlice, reqSeen, nUpdates>>
  /\ UNCHANGED <<healthVars, rrVars, limiterVars, inboundVars, apiVars>>

SliceNext ==
  \/ \E id \in SliceIds : SliceAddToHealthyBacks(id)
  \/ \E id \in SliceIds : SliceRemoveFromHealthyBackends(id)
  \/ SliceGetHealthyBackends
  \/ SliceGetNextBackend

(***************************************************************************)
(* Specifications. Each subsystem runs while the others stay as built.      *)
(***************************************************************************)
vars == <<healthVars, rrVars, limiterVars, inboundVars, apiVars, sliceVars>>

\* the health subsystem before anything has run, as NewApp builds it
HealthIdle == HealthInit /\ mode = "NewApp"
\* a strategy nobody uses
RRIdle == RRInit /\ rrLen = 0 /\ rrCurrent = <<0, 0>>
\* a limiter nobody uses
LimiterIdle == LimiterInit /\ defaultCap = 1
\* no inbound request
InboundIdle == InboundInit /\ rqList = <<>>

\* the registry, the checker and the route consumers
BusNext ==
  \/ SetupBackend
  \/ NewLBHandler
  \/ NewAppStartPeriod
  \/ Start
  \/ \E w \in Workers : WorkerTake(w)
  \/ \E w \in Workers : Probe(w)
  \/ \E w \in Workers : StoreHealthy(w)
  \/ \E w \in Workers : UpdateHealth(w)
  \/ \E w \in Workers : SendStatus(w)
  \/ \E w \in Workers : UpdateHealthReturn(w)
  \/ \E k \in Slots : TimerFire(k)
  \/ \E k \in Slots : Receive(k)
  \/ \E k \in Slots : AddToHealthyLoop(k)
  \/ \E k \in Slots : AddToHealthyAppend(k)
  \/ \E k \in Slots : RemoveUnhealthy(k)

BusInit == HealthInit /\ RRIdle /\ LimiterIdle /\ InboundIdle /\ ApiInit /\ SliceIdle

SpecBus == BusInit /\ [][BusNext]_vars

\* the registry, the checker, the route consumers and the proxy entry points
ProxyInit == HealthInit /\ RRIdle /\ LimiterIdle /\ InboundIdle /\ ApiInit /\ SliceIdle

SpecHealth == ProxyInit /\ [][HealthNext]_vars

\* A running system whose first sink is full: a direct caller built the
\* routes with NewBackend identities and started the checker; the first
\* backend has flapped SubscriberCap times (up, down, up, ...) and the others
\* answered unhealthy once, while none of the consumers has been scheduled
BacklogRoutes == [k \in Slots |-> Backend(NewBackendId(k), k)]

BacklogStatuses ==
  [i \in 1..SubscriberCap |-> [Id |-> NewBackendId(1), IsHealthy |-> (i % 2 = 1)]]

BacklogHealth ==
  /\ mode = "direct"
  /\ routes = BacklogRoutes
  /\ appPc = "started"
  /\ regNext = NumBackends + 1
  /\ crashed = FALSE
  /\ backendId = [i \in Ids |-> IF i \in Slots THEN BacklogRoutes[i] ELSE NoBackend]
  /\ backends = [i \in Ids |-> IF i = NewBackendId(1)
                                 THEN BacklogStatuses[SubscriberCap] ELSE NoStatus]
  /\ subscribers = [i \in Ids |-> IF i \in Slots THEN <<i>> ELSE <<>>]
  /\ sinkBuf = [k \in Slots |-> IF k = 1 THEN BacklogStatuses ELSE <<>>]
  /\ regMu = 0
  /\ serverChan = <<>>
  /\ healthySet = IF BacklogStatuses[SubscriberCap].IsHealthy
                  THEN {NewBackendId(1)} ELSE {}
  /\ timers = [k \in Slots |-> <<unhealthyFrequency>>]
  /\ wPc = [w \in Workers |-> "idle"]
  /\ wBackend = [w \in Workers |-> 0]
  /\ wHealthy = [w \in Workers |-> FALSE]
  /\ wSub = [w \in Workers |-> 0]
  /\ probes = 0
  /\ healthyBackends = [r \in Routes |-> <<>>]
  /\ handlerBackends = [r \in Routes |-> <<>>]
  /\ handlerMade = Routes
  /\ lbMu = [r \in Routes |-> 0]
  /\ cPc = [k \in Slots |-> "recv"]
  /\ cUpdate = [k \in Slots |-> NoStatus]
  /\ current = [r \in Routes |-> <<0, 0>>]
  /\ requests = 0
  /\ observed = [i \in Ids |->
                   IF i = NewBackendId(1)
                   THEN [j \in 1..SubscriberCap |-> BacklogStatuses[j].IsHealthy]
                   ELSE IF i \in Slots THEN <<FALSE>> ELSE <<>>]
  /\ published = [i \in Ids |-> IF i = NewBackendId(1) THEN BacklogStatuses ELSE <<>>]
  /\ received = [k \in Slots |-> <<>>]
  /\ served = [r \in Routes |-> <<>>]
  /\ lastApplied = [r \in Routes |-> [i \in Ids |-> "none"]]
  /\ hbVersion = [r \in Routes |-> 0]

\* the checker's workers, its timers and the route consumers, after start-up
RunNext ==
  \/ \E w \in Workers : WorkerTake(w)
  \/ \E w \in Workers : Probe(w)
  \/ \E w \in Workers : StoreHealthy(w)
  \/ \E w \in Workers : UpdateHealth(w)
  \/ \E w \in Workers : SendStatus(w)
  \/ \E w \in Workers : UpdateHealthReturn(w)
  \/ \E k \in Slots : TimerFire(k)
  \/ \E k \in Slots : Receive(k)
  \/ \E k \in Slots : AddToHealthyLoop(k)
  \/ \E k \in Slots : AddToHealthyAppend(k)
  \/ \E k \in Slots : RemoveUnhealthy(k)

BacklogInit == BacklogHealth /\ RRIdle /\ LimiterIdle /\ InboundIdle /\ ApiInit /\ SliceIdle

SpecBacklog == BacklogInit /\ [][RunNext]_vars

\* one checker worker, one consumer goroutine
WorkerStep(w) ==
  \/ WorkerTake(w)
  \/ Probe(w)
  \/ StoreHealthy(w)
  \/ UpdateHealth(w)
  \/ SendStatus(w)
  \/ UpdateHealthReturn(w)

ConsumerStep(k) ==
  \/ Receive(k)
  \/ AddToHealthyLoop(k)
  \/ AddToHealthyAppend(k)
  \/ RemoveUnhealthy(k)

\* the Go scheduler runs every goroutine that can take a step, and a timer
\* that is armed fires
RunFairness ==
  /\ \A w \in Workers : WF_vars(WorkerStep(w))
  /\ \A k \in Slots : WF_vars(ConsumerStep(k))
  /\ \A k \in Slots : WF_vars(TimerFire(k))

SpecBacklogLive == BacklogInit /\ [][RunNext]_vars /\ RunFairness

\* the start-up thread runs on, and so do the goroutines it has started
StartupStep == SetupBackend \/ NewLBHandler \/ NewAppStartPeriod \/ Start

BusFairness == WF_vars(StartupStep) /\ RunFairness

SpecBusLive == BusInit /\ [][BusNext]_vars /\ BusFairness

\* A checker used through its own API: the caller hands the backends to
\* hc.AddBackend and calls hc.Start, and nothing was given to
\* AddBackendToRegistry or Subscribe
BareHealth ==
  /\ mode = "direct"
  /\ routes \in DirectRoutes
  /\ appPc = "started"
  /\ regNext = 1
  /\ crashed = FALSE
  /\ backendId = [i \in Ids |-> NoBackend]
  /\ backends = [i \in Ids |-> NoStatus]
  /\ subscribers = [i \in Ids |-> <<>>]
  /\ sinkBuf = [k \in Slots |-> <<>>]
  /\ regMu = 0
  /\ serverChan = [k \in Slots |-> k]
  /\ healthySet = {}
  /\ timers = [k \in Slots |-> <<>>]
  /\ wPc = [w \in Workers |-> "idle"]
  /\ wBackend = [w \in Workers |-> 0]
  /\ wHealthy = [w \in Workers |-> FALSE]
  /\ wSub = [w \in Workers |-> 0]
  /\ probes = 0
  /\ healthyBackends = [r \in Routes |-> <<>>]
  /\ handlerBackends = [r \in Routes |-> <<>>]
  /\ handlerMade = {}
  /\ lbMu = [r \in Routes |-> 0]
  /\ cPc = [k \in Slots |-> "off"]
  /\ cUpdate = [k \in Slots |-> NoStatus]
  /\ current = [r \in Routes |-> <<0, 0>>]
  /\ requests = 0
  /\ observed = [i \in Ids |-> <<>>]
  /\ published = [i \in Ids |-> <<>>]
  /\ received = [k \in Slots |-> <<>>]
  /\ served = [r \in Routes |-> <<>>]
  /\ lastApplied = [r \in Routes |-> [i \in Ids |-> "none"]]
  /\ hbVersion = [r \in Routes |-> 0]

\* the checker's workers and timers
CheckerNext ==
  \/ \E w \in Workers : WorkerTake(w)
  \/ \E w \in Workers : Probe(w)
  \/ \E w \in Workers : StoreHealthy(w)
  \/ \E w \in Workers : UpdateHealth(w)
  \/ \E w \in Workers : UpdateHealthReturn(w)
  \/ \E k \in Slots : TimerFire(k)

BareInit == BareHealth /\ RRIdle /\ LimiterIdle /\ InboundIdle /\ ApiInit /\ SliceIdle

SpecChecker == BareInit /\ [][CheckerNext]_vars

\* the round-robin strategy on a fixed candidate list
StrategyInit == HealthIdle /\ RRInit /\ LimiterIdle /\ InboundIdle /\ ApiInit /\ SliceIdle

SpecRR == StrategyInit /\ [][RRNext]_vars

\* the limiter
RateInit == HealthIdle /\ RRIdle /\ LimiterInit /\ InboundIdle /\ ApiInit /\ SliceIdle

SpecLimiter == RateInit /\ [][LimiterNext]_vars

\* the refill loops and callers of Allow, no client management
RefillNext ==
  \/ StartPeriod
  \/ Cancel
  \/ \E l \in Loops : LoopExit(l)
  \/ \E l \in Loops : RefillLock(l)
  \/ \E l \in Loops : refillBuckets(l)
  \/ \E c \in Clients : AllowLookup(c)
  \/ \E c \in Clients : AllowTake(c)

\* a refill loop that can take a step takes one: between two ticks only
\* ctx.Done() is ready in its select, and a pass that holds tb.mu ends
RefillFairness ==
  /\ \A l \in Loops : WF_vars(LoopExit(l))
  /\ \A l \in Loops : WF_vars(refillBuckets(l))

TickInit == HealthIdle /\ RRIdle /\ LimiterInit /\ InboundIdle /\ ApiInit /\ SliceIdle

SpecRefill == TickInit /\ [][RefillNext]_vars /\ RefillFairness

\* inbound requests through the middleware and the proxy handler
ArrivalInit == HealthIdle /\ RRIdle /\ LimiterInit /\ InboundInit /\ ApiInit /\ SliceIdle

SpecInbound == ArrivalInit /\ [][InboundNext]_vars

\* the /clients handlers and concurrent callers of Allow, the refill loop idle
ManageInit == HealthIdle /\ RRIdle /\ LimiterInit /\ InboundIdle /\ ApiInit /\ SliceIdle

SpecClients == ManageInit /\ [][ClientsNext]_vars

\* one Loadbalancer's healthy list under updates, read by one request
SnapshotInit == HealthIdle /\ RRIdle /\ LimiterIdle /\ InboundIdle /\ ApiInit /\ SliceInit

SpecSnapshot == SnapshotInit /\ [][SliceNext]_vars

(***************************************************************************)
(* Claims about the health bus and the healthy subsets.                     *)
(***************************************************************************)
\* C1: in every reachable state each route's healthy subset holds at most
\* one entry per backend identity.
C1_AtMostOnePerIdentity ==
  \A r \in Routes : \A i, j \in DOMAIN healthyBackends[r] :
    i # j => healthyBackends[r][i].Id # healthyBackends[r][j].Id

\* C2: every descriptor in a route's healthy subset is one of the backends
\* (same URL and probe path) configured for that route.
C2_SubsetOfConfigured ==
  \A r \in Routes : \A i \in DOMAIN healthyBackends[r] :
    \E k \in SlotsOf(r) : /\ healthyBackends[r][i].URL = routes[k].URL
                          /\ healthyBackends[r][i].Health = routes[k].Health

\* C3: the backends CreateLoadBalancers has registered from the route
\* configuration NewApp builds carry pairwise different identities.
C3_DistinctIdentities ==
  mode = "NewApp" =>
    \A j, k \in 1..(regNext - 1) : j # k => routes[j].Id # routes[k].Id

\* a route with two backends of different identities
TwoDistinct(r) ==
  /\ Cardinality(SlotsOf(r)) = 2
  /\ \A j, k \in SlotsOf(r) : j # k => routes[j].Id # routes[k].Id

\* C4: for a route with two distinct backends, a request served once both
\* backends have been probed healthy and their updates applied is forwarded
\* to one of the two, and two such requests in a row with the subset unchanged
\* between them go to different backends.
C4_BothHealthyServeBoth ==
  \A r \in Routes : TwoDistinct(r) =>
    \A i \in DOMAIN served[r] : served[r][i].full =>
      /\ \E k \in SlotsOf(r) : served[r][i].res = routes[k].URL
      /\ (/\ i + 1 \in DOMAIN served[r]
          /\ served[r][i + 1].full
          /\ served[r][i + 1].version = served[r][i].version)
         => served[r][i + 1].res # served[r][i].res

\* C5: once a route's balancer has applied a healthy=false update for an
\* identity (and no healthy=true for it since), the route's healthy subset has
\* no entry with that identity and no request is forwarded to such a backend.
C5_DownMeansAbsent ==
  \A r \in Routes :
    /\ \A id \in Ids : lastApplied[r][id] = "down" =>
         \A i \in DOMAIN healthyBackends[r] : healthyBackends[r][i].Id # id
    /\ \A i \in DOMAIN served[r] : ~served[r][i].toDown

\* the number of changes of value along <<FALSE>> \o s (a backend starts out
\* not in the healthy set)
RECURSIVE Edges(_, _)
Edges(s, last) ==
  IF s = <<>> THEN 0
  ELSE (IF Head(s) # last THEN 1 ELSE 0) + Edges(Tail(s), Head(s))

\* no updateStatus call is under way for identity id
Quiet(id) ==
  \A w \in Workers : wPc[w] \in {"store", "update", "send"} => routes[wBackend[w]].Id # id

\* C6: for each identity, every maximal run of identical observations results
\* in exactly one published status (an initial unhealthy run continues the
\* state a backend starts in and is silent): once the updateStatus calls for
\* the identity have returned, as many statuses were published as the
\* observations have edges, and no two in a row are equal.
C6_OnePublicationPerRun ==
  \A id \in Ids : (~crashed /\ Quiet(id)) =>
    /\ Len(published[id]) = Edges(observed[id], FALSE)
    /\ \A i \in 1..(Len(published[id]) - 1) :
         published[id][i].IsHealthy # published[id][i + 1].IsHealthy

\* C7: what a subscriber has received for an identity is at all times a prefix
\* of what UpdateHealth recorded for that identity, in the same order.
C7_ReceivedPrefixOfPublished ==
  \A k \in 1..(regNext - 1) : IsPrefix(received[k], published[routes[k].Id])

\* C7 witness: a subscriber has received two different statuses while a second
\* subscriber of the same identity lags behind
C7_Witness ==
  \E k, j \in 1..(regNext - 1) :
    /\ k # j
    /\ routes[k].Id = routes[j].Id
    /\ Len(received[k]) >= 2
    /\ received[k][1] # received[k][2]
    /\ Len(received[j]) < 2

(***************************************************************************)
(* Claims about the token buckets.                                          *)
(***************************************************************************)
\* C8: after any interleaving of Allow, refill ticks, AddClient and
\* DeleteClient, every bucket in the bucket map (the default bucket and every
\* client bucket) holds at least 0 and at most its capacity tokens.
C8_TokensWithinCapacity ==
  \A k \in Keys :
    tokenBucket[k] # 0 =>
      /\ chans[tokenBucket[k]].len >= 0
      /\ chans[tokenBucket[k]].len <= chans[tokenBucket[k]].cap

\* a refill pass has run over a default bucket that was full and over a client
\* bucket that a call had taken a token from
C8_Witness ==
  /\ nTicks >= 1
  /\ tbWriter = 0
  /\ tokenBucket[KeyDefault] = 1
  /\ stats[1].calls = 0
  /\ chans[1].len = chans[1].cap
  /\ \E ch \in Mapped :
       /\ ch # 1
       /\ stats[ch].admitted >= 1
       /\ stats[ch].ticks >= 1
       /\ chans[ch].len = chans[ch].cap

(***************************************************************************)
(* Claims about the round-robin strategy.                                   *)
(***************************************************************************)
\* the positions of p holding x
Count(p, x) == Cardinality({i \in DOMAIN p : p[i] = x})

\* the picks p are {0..L-1} repeated Len(p) \div L times plus a prefix of the
\* rotation, which starts at p's first pick
IsRotation(p, L) ==
  \A x \in 0..(L - 1) :
    Count(p, x) = (Len(p) \div L)
                  + (IF ((x - p[1] + L) % L) < (Len(p) % L) THEN 1 ELSE 0)

\* no two calls obtained the same counter value
DistinctValues ==
  \A i, j \in DOMAIN rrValues : i # j => rrValues[i] # rrValues[j]

\* the counter wrapped from 2^32 - 1 to 0 between selections i and j
WrapsWithin(i, j) == \E m \in (i + 1)..j : rrValues[m] = <<0, 0>>

\* 2^32 mod n
TwoTo32Mod(n) == ((Half % n) * (Half % n)) % n

\* C9 as stated: for a fixed candidate list of length L, any K consecutive
\* selections in counter order, by any number of concurrent callers, the
\* counter's wrap included, choose {0..L-1} repeated K/L times plus a prefix
\* of the rotation, and no two calls obtain the same counter value.
C9_RotationAcrossWrap ==
  rrLen > 0 =>
    /\ \A i, j \in DOMAIN rrPicks : i <= j => IsRotation(SubSeq(rrPicks, i, j), rrLen)
    /\ DistinctValues

\* C9 amended: the same for any K consecutive selections during which the
\* counter does not wrap from 2^32 - 1 to 0, or with L a divisor of 2^32;
\* every index chosen is in 0..L-1, the wrap included; no two calls obtain
\* the same counter value.
C9_RotationBetweenWraps ==
  rrLen > 0 =>
    /\ \A i \in DOMAIN rrPicks : rrPicks[i] \in 0..(rrLen - 1)
    /\ \A i, j \in DOMAIN rrPicks :
         (i <= j /\ (~WrapsWithin(i, j) \/ TwoTo32Mod(rrLen) = 0))
           => IsRotation(SubSeq(rrPicks, i, j), rrLen)
    /\ DistinctValues

\* two callers at once have made more selections than the list is long, on a
\* list of three and without a wrap
C9_Witness ==
  /\ rrLen = 3
  /\ Len(rrPicks) > rrLen
  /\ ~WrapsWithin(1, Len(rrPicks))
  /\ \A c \in Callers : rrPc[c] = "picked"

NamedBucket(key) ==
  IF (Contains(key, ".") \/ Contains(key, ":")) /\ tokenBucket[key] # 0
  THEN tokenBucket[key]
  ELSE tokenBucket[KeyDefault]

\* C11: Allow(key) decides on exactly one bucket: the client's bucket if key
\* contains "." or ":" and is in the bucket map, without falling back to the
\* default bucket; the default bucket for every other key, the empty key
\* included; it admits iff the bucket decided on holds a token.
C11_AllowDecidesOnNamedBucket ==
  [][\A c \in Clients :
       /\ \A key \in Keys : AllowLookupKey(c, key) => allowChan'[c] = NamedBucket(key)
       /\ AllowTake(c) =>
            (allowChan[c] # 0 =>
               ((chans[allowChan[c]].len > 0)
                  <=> (stats'[allowChan[c]].admitted = stats[allowChan[c]].admitted + 1)))]_vars

(***************************************************************************)
(* Claims about one inbound request.                                        *)
(***************************************************************************)
\* the requests that selected a backend
Selected == {q \in Requests : rqBackend[q] # 0}

\* C12: on a proxied route Allow's decision comes first: when Allow rejects,
\* the response is 429 and the proxy handler is never invoked (no backend is
\* selected, the round-robin counter does not advance); when Allow admits,
\* the proxy handler is invoked exactly once.
C12_AllowComesFirst ==
  /\ \A q \in Requests :
       /\ rqInvoked[q] > 0 => rqAllowed[q] = "admit"
       /\ rqAllowed[q] = "reject" =>
            rqPc[q] = "done" /\ rqStatus[q] = 429 /\ rqInvoked[q] = 0 /\ rqBackend[q] = 0
       /\ (rqAllowed[q] = "admit" /\ rqPc[q] # "serve") => rqInvoked[q] = 1
       /\ rqInvoked[q] <= 1
  /\ rqCounter = <<0, Cardinality(Selected)>>

\* one request was rejected with 429 and another went through the handler
C12_Witness ==
  \E q, p \in Requests :
    /\ rqAllowed[q] = "reject" /\ rqStatus[q] = 429
    /\ rqAllowed[p] = "admit" /\ rqPc[p] = "done" /\ rqInvoked[p] = 1 /\ rqBackend[p] # 0

\* C13: when the route's healthy subset is empty as an admitted request is
\* served, the proxy responds 503 and makes no attempt against any backend.
C13_EmptySubsetIs503 ==
  \A q \in Requests :
    (rqInvoked[q] > 0 /\ Len(rqList) = 0) =>
      /\ rqPc[q] = "done"
      /\ rqStatus[q] = 503
      /\ rqBackend[q] = 0
      /\ rqAttempts[q] = <<>>

\* an admitted request was served from an empty list
C13_Witness ==
  \E q \in Requests : rqInvoked[q] = 1 /\ Len(rqList) = 0 /\ rqStatus[q] = 503

\* the attempts of q are at most maxRetries, none follows a 2xx, and a 2xx is
\* the response relayed
AttemptsBounded(q) ==
  /\ Len(rqAttempts[q]) <= maxRetries
  /\ \A n \in DOMAIN rqAttempts[q] :
       IsSuccess(rqAttempts[q][n]) =>
         /\ n = Len(rqAttempts[q])
         /\ rqPc[q] = "done" /\ rqRelayed[q] /\ rqStatus[q] = rqAttempts[q][n]

\* C14 as stated: for one inbound request the proxy makes at least 1 and at
\* most 3 attempts against the selected backend, none after an attempt that
\* returned a status in [200, 300), whose response is the one relayed.
C14_OneToThreeAttempts ==
  \A q \in Selected :
    /\ AttemptsBounded(q)
    /\ rqPc[q] = "done" => Len(rqAttempts[q]) >= 1

\* C14 amended: the same for a request whose body was read and whose
\* upstream request was built; a request for which cloneRequest fails gets
\* 500 and no attempt is made.
C14_OneToThreeAttemptsOnceCloned ==
  \A q \in Selected :
    /\ AttemptsBounded(q)
    /\ rqPc[q] = "done" =>
         \/ Len(rqAttempts[q]) >= 1
         \/ rqStatus[q] = 500 /\ ~rqRelayed[q]

\* three attempts were made and the third, a 2xx, was relayed
C14_Witness ==
  \E q \in Selected :
    /\ Len(rqAttempts[q]) = maxRetries
    /\ IsSuccess(rqAttempts[q][maxRetries])
    /\ rqStatus[q] = rqAttempts[q][maxRetries]

\* C15: when an attempt returns a 4xx other than 429 the proxy makes no
\* further attempt and relays that response with the same status; if it is
\* the first attempt the backend is hit exactly once.
C15_ClientErrorIsTerminal ==
  \A q \in Requests :
    \A n \in DOMAIN rqAttempts[q] :
      (rqAttempts[q][n] >= 400 /\ rqAttempts[q][n] < 500 /\ rqAttempts[q][n] # 429) =>
        /\ n = Len(rqAttempts[q])
        /\ rqPc[q] = "done"
        /\ rqRelayed[q]
        /\ rqStatus[q] = rqAttempts[q][n]

\* a 404 on the first attempt was relayed after one hit
C15_Witness ==
  \E q \in Requests : rqAttempts[q] = <<404>> /\ rqStatus[q] = 404 /\ rqRelayed[q]

\* the outcomes C16 and C17 call retryable: 5xx, 429, a transport error
Retryable(o) == o = 0 \/ o = 429 \/ (o >= 500 /\ o < 600)

\* C16: when the first or the second attempt ends in a retryable outcome and
\* the inbound request is not cancelled, the proxy makes another attempt (it
\* does not finish there); if a later attempt returns 2xx the client
\* receives that 2xx response.
C16_RetryableIsRetried ==
  \A q \in Requests :
    /\ (~rqDone[q] /\ Len(rqAttempts[q]) \in 1..(maxRetries - 1)
          /\ Retryable(rqAttempts[q][Len(rqAttempts[q])]))
         => rqPc[q] \in {"wait", "do"}
    /\ (Len(rqAttempts[q]) >= 2 /\ IsSuccess(rqAttempts[q][Len(rqAttempts[q])]))
         => rqPc[q] = "done" /\ rqRelayed[q]
              /\ rqStatus[q] = rqAttempts[q][Len(rqAttempts[q])]

\* 500, 500, 200 gave the client 200
C16_Witness ==
  \E q \in Requests :
    rqAttempts[q] = <<500, 500, 200>> /\ rqStatus[q] = 200 /\ rqRelayed[q] /\ ~rqDone[q]

\* C17: when all 3 attempts are used up without a success, whether each
\* ended in a transport error or in a retryable status (5xx or 429), the
\* proxy responds 502 Bad Gateway.
C17_ExhaustedIs502 ==
  \A q \in Requests :
    (/\ rqPc[q] = "done"
     /\ Len(rqAttempts[q]) = maxRetries
     /\ \A n \in DOMAIN rqAttempts[q] : Retryable(rqAttempts[q][n]))
      => rqStatus[q] = 502

\* C18: if the inbound request is cancelled while the proxy waits between
\* two attempts, the wait ends, no further attempt is made against the
\* backend, and the request finishes with an error response, not with a
\* relayed backend response.
C18_CancelledWaitAborts ==
  \A q \in Requests :
    rqCancelPc[q] = "wait" =>
      /\ Len(rqAttempts[q]) = rqCancelAt[q]
      /\ rqPc[q] \in {"wait", "done"}
      /\ rqPc[q] = "wait" => ENABLED BackoffCancelled(q)
      /\ rqPc[q] = "done" => rqStatus[q] = 502 /\ ~rqRelayed[q]

\* a request cancelled during its second wait finished with 502
C18_Witness ==
  \E q \in Requests :
    /\ rqCancelPc[q] = "wait"
    /\ rqCancelAt[q] = 2
    /\ rqPc[q] = "done"
    /\ rqStatus[q] = 502

\* C19: for every client config c, GetClient(c.Ip) directly after
\* AddClient(c) returns c, and GetClient(c.Ip) after AddClient(c) followed by
\* DeleteClient(c.Ip) returns absent, whatever clients were registered
\* before.
C19_AddGetDeleteGet ==
  [][/\ \A config \in Configs :
          AddClient(config) => GetClient(config.Ip)' = config
     /\ \A config \in Configs :
          (GetClient(config.Ip) = config /\ DeleteClient(config.Ip))
            => GetClient(config.Ip)' = NoClient]_vars

\* no key is listed twice
OnePerKey(list) == \A c1, c2 \in list : c1.Ip = c2.Ip => c1 = c2

\* C20: after any sequence of successful POST /clients and DELETE /clients
\* requests ListClients returns exactly one config per key added and not
\* deleted since, the config of the latest add: a POST answered 201 puts its
\* config in the list in place of any older one for the key (one longer for a
\* new key), a DELETE of a listed key is answered 204 and removes it, GET
\* returns the list, and nothing else changes it.
C20_ListFollowsPostAndDelete ==
  [][/\ \A config \in Configs :
          (handleCreateClient(config) /\ apiStatus' = 201) =>
            /\ ListClients' = {c \in ListClients : c.Ip # config.Ip} \cup {config}
            /\ GetClient(config.Ip) = NoClient =>
                 Cardinality(ListClients') = Cardinality(ListClients) + 1
     /\ \A k \in Keys :
          (handleDeleteClient(k) /\ GetClient(k) # NoClient /\ ~fatal') =>
            /\ apiStatus' = 204
            /\ ListClients' = {c \in ListClients : c.Ip # k}
            /\ Cardinality(ListClients') = Cardinality(ListClients) - 1
     /\ \A k \in Keys :
          (handleDeleteClient(k) /\ apiStatus' = 204) =>
            ListClients' = {c \in ListClients : c.Ip # k}
     /\ handleGetClients => apiBody' = ListClients /\ apiStatus' = 200
     /\ ((\A config \in Configs : ~handleCreateClient(config))
           /\ (\A k \in Keys : ~handleDeleteClient(k))) => ListClients' = ListClients
     /\ apiStatus' = 400 => ListClients' = ListClients
     /\ OnePerKey(ListClients')
     /\ \A c \in ListClients' : GetClient(c.Ip)' = c]_vars

\* one client was posted, then another, which was deleted again with 204:
\* the first alone is listed
C20_Witness ==
  /\ apiStatus = 204
  /\ ListClients = {[Ip |-> KeyIp, Capacity |-> 1, Interval |-> 30]}
  /\ Len(chans) = 3
  /\ chans[2].cap = 1
  /\ chans[3].cap = 2

\* every key of the client map has a bucket
ClientsHaveBuckets == \A k \in Keys : clients[k] # NoClient => tokenBucket[k] # 0

\* C21 as stated: in every reachable state, under any interleaving of
\* AddClient and DeleteClient, every key in the client map has a bucket in
\* the bucket map, and after DeleteClient(k) returns neither map holds k.
C21_DeleteRemovesBoth ==
  [][/\ ClientsHaveBuckets'
     /\ \A k \in Keys :
          DeleteClient(k) => clients'[k] = NoClient /\ tokenBucket'[k] = 0]_vars

\* C21 amended: the same, the bucket map part of the second half for every
\* k but the key "default" while no client is registered under it: the
\* default bucket stays.
C21_DeleteRemovesBothButDefault ==
  [][/\ ClientsHaveBuckets'
     /\ \A k \in Keys :
          DeleteClient(k) =>
            /\ clients'[k] = NoClient
            /\ (clients[k] # NoClient \/ k # KeyDefault) => tokenBucket'[k] = 0]_vars

\* one client was added and deleted again: no config and no bucket of it
C21_Witness ==
  /\ nManage = 2
  /\ Len(chans) = 2
  /\ \A k \in Keys : clients[k] = NoClient
  /\ \A k \in Keys \ {KeyDefault} : tokenBucket[k] = 0

BlockedOn(w, k) ==
  /\ wPc[w] = "send"
  /\ wSub[w] <= Len(subscribers[StatusOf(w).Id])
  /\ subscribers[StatusOf(w).Id][wSub[w]] = k
  /\ Len(sinkBuf[k]) = SubscriberCap

\* every sink's consumer has received as many statuses as were published
\* for the sink's identity (all sinks are subscribed before the first
\* publication, and what is received is a prefix of what was published)
AllDelivered == \A k \in Slots : Len(received[k]) = Len(published[routes[k].Id])

\* C23: every status UpdateHealth publishes for an identity after a
\* Subscribe call for it has returned is eventually received by that
\* subscription's consumer, every goroutine that can take a step eventually
\* taking one. The probes of a behaviour are bounded, so the publications
\* end, and from some point on everything published has been received.
C23_PublishedIsReceived == <>[]AllDelivered

\* C24: while UpdateHealth is blocked delivering a status to a subscriber
\* whose sink is full, only that delivery waits: the registry's lock is free
\* for GetBackendById (read lock), for Subscribe and for UpdateHealth of
\* other identities (write lock).
C24_OnlyThatDeliveryWaits ==
  \A w \in Workers : \A k \in Slots :
    BlockedOn(w, k) => RegistryReadable /\ RegistryLockFree

\* C25: the health bus never deadlocks: in every reachable state in which a
\* checker worker is blocked in UpdateHealth on a full sink, the consumer of
\* that sink can take its next step (its registry lookup in addToHealthyBacks
\* included), so the sink is drained and the publication completes.
C25_ConsumerCanDrain ==
  \A w \in Workers : \A k \in Slots :
    BlockedOn(w, k) => ENABLED ConsumerStep(k)

\* C26: no status value handed to UpdateHealth terminates the process: for
\* the zero-valued status (identity 0, healthy = false) too the call leaves
\* the process running.
C26_UpdateHealthNeverExits ==
  [][\A w \in Workers : UpdateHealth(w) => ~crashed']_vars

\* C27: in every reachable state of the registry every identity that has a
\* recorded status also has a registered descriptor: UpdateHealth for an
\* identity without a descriptor fails and records nothing.
C27_StatusHasDescriptor ==
  \A i \in Ids : backends[i] # NoStatus => backendId[i] # NoBackend

\* C28: the bucket map is never written by one operation while another
\* reads or writes it: a step of AddClient or DeleteClient that writes the
\* bucket map is taken only while no Allow call and no refill pass is inside
\* tb.mu (AddClient and DeleteClient exclude each other by clientStore.mu).
C28_MapWritesExclusive ==
  [][tokenBucket' # tokenBucket => ~MapInUse]_vars

(***************************************************************************)
(* Claims about the refill task.                                            *)
(***************************************************************************)
\* no refill task is running
LoopsStopped == \A l \in Loops : loopPc[l] \in {"off", "done"}

\* some bucket gets a token in this step
TokenGained == \E ch \in DOMAIN chans : chans'[ch].len > chans[ch].len

\* C29 as stated: after the context given to the limiter is cancelled every
\* refill task of that limiter terminates, and no bucket gains a token from a
\* refill any more.
C29_NoRefillAfterCancel ==
  /\ ctxDone ~> LoopsStopped
  /\ [][ctxDone => ~TokenGained]_vars

\* C29 amended: after the cancellation every refill task terminates, and a
\* task that has terminated stays terminated and puts no token into any
\* bucket: tokens are gained only in the step of a task that is inside a
\* pass (one begun before the cancellation, or for a tick its select took
\* with the cancellation already there).
C29_LoopsExitAndRefillNoMore ==
  /\ ctxDone ~> LoopsStopped
  /\ [][/\ \A l \in Loops : loopPc[l] = "done" => loopPc'[l] = "done"
        /\ TokenGained => \E l \in Loops : loopPc[l] = "pass" /\ refillBuckets(l)]_vars

\* cancelled, a pass was made after a token had been taken, both tasks ended
C29_Witness ==
  /\ ctxDone
  /\ \A l \in Loops : loopPc[l] = "done"
  /\ nTicks = MaxTicks
  /\ stats[1].ticks > 0

\* C30: one refill tick adds exactly one token to every bucket in the bucket
\* map that is below its capacity and leaves every full bucket unchanged; it
\* adds or removes no bucket and changes no client config.
C30_TickAddsOneBelowCapacity ==
  [][\A l \in Loops :
       refillBuckets(l) =>
         /\ DOMAIN chans' = DOMAIN chans
         /\ \A ch \in Mapped :
              /\ chans'[ch].cap = chans[ch].cap
              /\ chans'[ch].len = IF chans[ch].len < chans[ch].cap
                                  THEN chans[ch].len + 1 ELSE chans[ch].len
         /\ tokenBucket' = tokenBucket
         /\ clients' = clients]_vars

\* one pass went over the default bucket, from which a token had been taken,
\* and over a client's bucket that was full (capacity 0) and stayed so
C30_Witness ==
  /\ nTicks = 1
  /\ \A l \in Loops : loopPc[l] # "pass"
  /\ stats[1].admitted >= 1 /\ stats[1].ticks = 1
  /\ Len(chans) = 2
  /\ tokenBucket[KeyIp] = 2
  /\ stats[2].ticks = 1
  /\ chans[2].cap = 0 /\ chans[2].len = 0

(***************************************************************************)
(* Claims about single calls of the limiter.                                *)
(***************************************************************************)
\* the bucket the map holds for key k changes neither its place nor its
\* content in this step
BucketUntouched(k) ==
  /\ tokenBucket'[k] = tokenBucket[k]
  /\ tokenBucket[k] # 0 => chans'[tokenBucket[k]] = chans[tokenBucket[k]]

\* C31: directly after AddClient(c) the bucket for c.Ip holds exactly
\* c.Capacity tokens and has capacity c.Capacity, whether or not a client with
\* that key existed before and whatever its bucket held; no other key's bucket
\* changes.
C31_AddClientFillsBucket ==
  [][\A config \in Configs :
       AddClient(config) =>
         /\ tokenBucket'[config.Ip] # 0
         /\ chans'[tokenBucket'[config.Ip]] = FullBucket(config.Capacity)
         /\ \A k \in Keys \ {config.Ip} : BucketUntouched(k)]_vars

\* the refill tasks that are running: inside their select or inside a pass
ActiveLoops == {l \in Loops : loopPc[l] \in {"wait", "pass"}}

\* C32: the limiter built by NewTokenBucketLimiter and started as NewApp does
\* is refilled by a single periodic timer: at most one refill task is active
\* at any time.
C32_OneRefillTask == Cardinality(ActiveLoops) <= 1

(***************************************************************************)
(* Claims about the checker's probe cycle.                                  *)
(***************************************************************************)
\* the places a backend handed to the checker can be: in the pending queue,
\* with a worker that probes it, or waiting on a timer
TimesQueued(k) == Cardinality({i \in DOMAIN serverChan : serverChan[i] = k})
ProbedBy(k) == {w \in Workers : wBackend[w] = k}
TimesHeld(k) == TimesQueued(k) + Cardinality(ProbedBy(k)) + Len(timers[k])

\* worker w returns from checkBackend in this step
ProbeCompletes(w) == wPc[w] \in {"probe", "send"} /\ wPc'[w] = "idle"

\* updateStatus has dealt with the result worker w's probe is completing with:
\* it was no edge, or UpdateHealth has recorded it and returned
PassedToUpdateStatus(w) ==
  LET id == routes[wBackend[w]].Id
  IN IF wPc[w] = "probe"
     THEN ~IsEdge(wHealthy'[w], id \in healthySet)
     ELSE /\ \E i \in DOMAIN published[id] : published[id][i] = StatusOf(w)
          /\ wSub[w] > Len(subscribers[id])

\* C33: each completed probe schedules exactly one re-enqueue of the probed
\* backend, armed only after the probe result has been passed to updateStatus,
\* with delay HealthyFrequency if that probe observed healthy and
\* UnhealthyFrequency otherwise; hence a backend added once to the checker is
\* never in the pending queue twice and never probed by two workers at the
\* same time.
C33_OneReenqueuePerProbe ==
  /\ [](\A k \in Slots : TimesHeld(k) <= 1)
  /\ [][/\ \A w \in Workers :
             ProbeCompletes(w) =>
               /\ PassedToUpdateStatus(w)
               /\ timers'[wBackend[w]] =
                    Append(timers[wBackend[w]],
                           IF wHealthy'[w] THEN healthyFrequency ELSE unhealthyFrequency)
        /\ \A k \in Slots :
             Len(timers'[k]) > Len(timers[k]) =>
               \E w \in Workers : wBackend[w] = k /\ ProbeCompletes(w)
        /\ \A k \in Slots :
             TimesQueued(k)' > TimesQueued(k) =>
               appPc = "setup" \/ Len(timers'[k]) < Len(timers[k])]_vars

\* one backend waits for its next probe after a healthy observation that was
\* published, another after an unhealthy one, and a third is in the queue
C33_Witness ==
  /\ \E k \in Slots : /\ timers[k] = <<healthyFrequency>>
                      /\ routes[k].Id \in healthySet
                      /\ published[routes[k].Id] # <<>>
  /\ \E k \in Slots : timers[k] = <<unhealthyFrequency>>
  /\ \E k \in Slots : TimesQueued(k) = 1
  /\ \A w \in Workers : wPc[w] = "idle"

\* C34: after Start, every backend added to the checker with AddBackend is
\* probed again and again without end, under fair scheduling of workers,
\* timers and route consumers: a probe of the backend leads to the arming of
\* its re-enqueue, the armed timer to the backend being queued, and the queued
\* backend to its next probe, for as long as the probes counted here are not
\* used up.
C34_ProbedAgainAndAgain ==
  \A k \in Slots :
    /\ (ProbedBy(k) # {}) ~> (timers[k] # <<>>)
    /\ (timers[k] # <<>>) ~> (TimesQueued(k) > 0 \/ probes = MaxProbes)
    /\ (TimesQueued(k) > 0 /\ appPc = "started")
         ~> (ProbedBy(k) # {} \/ probes = MaxProbes)

(***************************************************************************)
(* Claims about the list a request is given.                                *)
(***************************************************************************)
\* C35: the list getHealthyBackends hands to a request is a snapshot: its
\* length and its elements as the request sees them are not changed by an
\* addToHealthyBacks or removeFromHealthyBackends that runs after
\* getHealthyBackends returned, so the backend the strategy picks was a member
\* of the healthy subset at the moment of the snapshot.
C35_ListIsSnapshot ==
  /\ reqPc = "got" => SliceView(lbArrays, reqSlice) = reqSeen
  /\ reqPick # 0 => reqPick \in SeqToSet(reqSeen)

\* C36: after any sequence of AddClient and DeleteClient calls with any keys
\* (the key "default" included) the bucket map still contains the reserved
\* default bucket with the capacity it was constructed with, so a caller whose
\* key matches no registered client is always decided against that bucket.
C36_DefaultBucketStays ==
  /\ tokenBucket[KeyDefault] # 0
  /\ chans[tokenBucket[KeyDefault]].cap = defaultCap

(***************************************************************************)
(* Claims about NewApp's start-up sequence.                                 *)
(***************************************************************************)
\* C37: NewApp's start-up sequence reaches the start of the health-checker
\* workers (hc.Start): after NewApp is called with a valid configuration the
\* workers are eventually running, so that probes begin and a healthy subset
\* can become non-empty.
C37_NewAppStartsChecker ==
  (mode = "NewApp") ~> (appPc = "started" /\ \A w \in Workers : wPc[w] # "off")

(***************************************************************************)
(* Claims about the checker's healthy set and the registry.                 *)
(***************************************************************************)
\* an updateStatus call for identity id has read the healthy set and has not
\* returned yet
UpdateStatusInProgress(id) ==
  \E w \in Workers : wPc[w] \in {"store", "update", "send"} /\ routes[wBackend[w]].Id = id

\* the registry's latest recorded status for id says healthy
RecordedHealthy(id) == backends[id] # NoStatus /\ backends[id].IsHealthy

\* C38: whenever no updateStatus call is in progress for an identity, the
\* registry's latest recorded status for that identity agrees with the
\* checker's healthy set (recorded healthy = true iff the identity is in the
\* set), under any interleaving of workers that report observations for that
\* identity.
C38_RegistryAgreesWithHealthySet ==
  \A id \in Ids :
    ~UpdateStatusInProgress(id) => (RecordedHealthy(id) <=> id \in healthySet)

(***************************************************************************)
(* Claims about the effect of one Allow call.                               *)
(***************************************************************************)
\* the buckets whose content differs after this step
ChangedBuckets == {ch \in DOMAIN chans : chans'[ch] # chans[ch]}

\* caller c's Allow call returns true in this step
Admits(c) ==
  /\ allowChan[c] # 0
  /\ stats'[allowChan[c]].admitted = stats[allowChan[c]].admitted + 1

\* C39: one Allow call changes at most one bucket and by exactly one token:
\* an admitting call removes one token from the bucket it was decided against
\* and leaves every other bucket unchanged, a rejecting call changes no
\* bucket, and no Allow call changes the client config map or the set of
\* buckets.
C39_AllowTakesOneToken ==
  [][\A c \in Clients :
       /\ AllowLookup(c) =>
            /\ chans' = chans
            /\ clients' = clients
            /\ tokenBucket' = tokenBucket
       /\ AllowTake(c) =>
            /\ clients' = clients
            /\ tokenBucket' = tokenBucket
            /\ DOMAIN chans' = DOMAIN chans
            /\ IF Admits(c)
               THEN /\ ChangedBuckets = {allowChan[c]}
                    /\ chans'[allowChan[c]].cap = chans[allowChan[c]].cap
                    /\ chans'[allowChan[c]].len = chans[allowChan[c]].len - 1
               ELSE ChangedBuckets = {}]_vars

\* two buckets exist; one call was admitted on the default bucket, which it
\* emptied, and another was rejected on a client's empty bucket
C39_Witness ==
  /\ Len(chans) = 2
  /\ tokenBucket[KeyIp] = 2
  /\ stats[1].calls = 1 /\ stats[1].admitted = 1 /\ chans[1].len = chans[1].cap - 1
  /\ stats[2].calls = 1 /\ stats[2].admitted = 0 /\ chans[2].len = 0
  /\ \A c \in Clients : allowPc[c] = "idle"

====
